---- MODULE Spec2Model ----
(***************************************************************************)
(* Seat reservation over a key-value store with per-key conditional        *)
(* writes: CassandraReservationSystem.make_reservation_safe, the three     *)
(* stress workloads built on it, and StressTestResults (containers.py).    *)
(*                                                                         *)
(* Storage statements are atomic steps; the client code between two        *)
(* statements is not. A storage call that throws has no effect on the      *)
(* store.                                                                  *)
(***************************************************************************)
EXTENDS Integers, Sequences, FiniteSets, TLC

(* ------------------------------ bounds -------------------------------- *)
NumSeats == 2
MaxFaults == 3
MaxRequests == 3
MaxCalls == 2
MaxCount == 11
MaxFailed == 1
MaxPerClient == 2
MaxTotalSeats == 8

(* ------------------------- program constants -------------------------- *)
SampleLimit == 10
SeatsPerRow == 6
FairnessNum == 3
FairnessDen == 10

Threads == {1, 2, 3}
Workers == {1, 2}
Users == {"u1", "u2"}
Flights == {"f1"}
NullUser == "null"
NoSeat == <<>>
NoId == <<>>
NoClient == -1
NoStatus == ""
NoRow == [flight_id |-> "null", user_id |-> NullUser, seat_number |-> NoSeat,
          reservation_time |-> NoId, status |-> NoStatus]

VARIABLES
    seat_availability,  \* [Flights \X labels -> Seat row]
    flights,            \* [Flights -> available_seats counter]
    reservations,       \* reservation_id -> reservation record
    att,                \* [Threads -> the make_reservation_safe call in progress]
    issued,             \* [Threads -> number of attempts started]
    holder,             \* [Threads -> the user a thread acts for]
    faults,             \* number of storage calls that have thrown
    log,                \* finished attempts (history)
    results,            \* the StressTestResults object of the running workload
    lock,               \* the threads holding StressTestResults.lock
    rec,                \* [Threads -> the record_* call in progress]
    worker,             \* [Threads -> the workload's worker loop]
    upd,                \* [Threads -> the update_reservation call in progress]
    h                   \* the workload driver (main thread of a stress test)

vars == <<seat_availability, flights, reservations, att, issued, holder, faults,
          log, results, lock, rec, worker, upd, h>>

store == <<seat_availability, flights, reservations>>
metrics == <<results, lock, rec>>
drivers == <<worker, h>>

(* --------------------------- create_flight ---------------------------- *)
\* (faulty variant: the row letter is always "A")
SeatLabelOneRow(seat_num) == <<0, ((seat_num - 1) % SeatsPerRow) + 1>>

\* seat_number = f"{chr(65 + (seat_num-1)//6)}{((seat_num-1)%6)+1}": the pair
\* (row letter index, digit)
SeatLabel(seat_num) ==
    <<(seat_num - 1) \div SeatsPerRow, ((seat_num - 1) % SeatsPerRow) + 1>>

SeatNums == 1..NumSeats
Labels == {SeatLabel(n) : n \in SeatNums}
SeatKeys == Flights \X Labels

\* a row as create_flight inserts it and as the rollback leaves it
FreeSeat == [is_available |-> TRUE, reserved_by |-> NullUser, reservation_time |-> NoId]

\* the rows create_flight writes: every seat available, counter = total_seats
NewSeats == [k \in SeatKeys |-> FreeSeat]
NewFlights == [f \in Flights |-> NumSeats]

(* ------------------------ make_reservation_safe ----------------------- *)
\* no call made yet. given, sampled, overtaken, cas, applied, threw and rolled
\* are history: the seat the caller named, whether the sample was read, whether
\* another call's conditional write was applied on the sampled seat before this
\* call sent its own (kept for a call that did not claim the seat), the number
\* of conditional writes sent, whether one was applied, the statement that threw,
\* whether the rollback write ran.
IdleAttempt ==
    [pc |-> "idle", user_id |-> NullUser, flight_id |-> "f1", preferred_seat |-> NoSeat,
     reservation_id |-> NoId, reservation_time |-> NoId, current_seats |-> 0,
     given |-> NoSeat, sampled |-> FALSE, overtaken |-> FALSE, cas |-> 0,
     applied |-> FALSE, threw |-> "none", rolled |-> FALSE, ret |-> "none"]

\* the seats (numbers) of flight f whose row has is_available = true
AvailableNums(f) == {n \in SeatNums : seat_availability[<<f, SeatLabel(n)>>].is_available}

\* (faulty variant: the filter is_available = true is missing)
SampleAnySeat(f) == Labels

\* SELECT seat_number ... WHERE flight_id = ? AND is_available = true LIMIT 10:
\* the first SampleLimit available rows of the partition in clustering order
SampleOf(f) ==
    {SeatLabel(n) : n \in {m \in AvailableNums(f) :
        Cardinality({k \in AvailableNums(f) : k < m}) < SampleLimit}}

\* uuid.uuid4() and datetime.now(): a value no other call gets, here the pair
\* (calling thread, number of the call)
FreshId(t) == <<t, issued[t] + 1>>

\* lines 169-175
StartAttempt(t, u, f, s) ==
    /\ att[t].pc = "idle"
    /\ issued' = [issued EXCEPT ![t] = @ + 1]
    /\ att' = [att EXCEPT ![t] =
            [IdleAttempt EXCEPT !.pc = IF s = NoSeat THEN "sample" ELSE "cas",
                                !.user_id = u, !.flight_id = f, !.preferred_seat = s, !.given = s,
                                !.reservation_id = FreshId(t), !.reservation_time = FreshId(t)]]

\* the handler of "except Exception": the rollback runs only if preferred_seat is set
\* (stmt: the statement that threw)
Raise(a, stmt) ==
    IF a.preferred_seat # NoSeat
    THEN [a EXCEPT !.pc = "except", !.threw = stmt]
    ELSE [a EXCEPT !.pc = "returned", !.threw = stmt, !.ret = "failed"]

Fault == /\ faults < MaxFaults
         /\ faults' = faults + 1

\* lines 175-187
SampleSeats(t) ==
    /\ att[t].pc = "sample"
    /\ LET sample == SampleOf(att[t].flight_id) IN
         IF sample = {}
         THEN att' = [att EXCEPT ![t].pc = "returned", ![t].ret = "noseats",
                                 ![t].sampled = TRUE]
         ELSE \E s \in sample :
                att' = [att EXCEPT ![t].pc = "cas", ![t].preferred_seat = s,
                                   ![t].sampled = TRUE]
    /\ UNCHANGED <<store, issued, holder, upd, faults, log, metrics, drivers>>

SampleFails(t) ==
    /\ att[t].pc = "sample"
    /\ Fault
    /\ att' = [att EXCEPT ![t] = Raise(@, "sample")]
    /\ UNCHANGED <<store, issued, holder, upd, log, metrics, drivers>>

\* (faulty variant: a write that ignores the IF clause)
CasAlways(row) == TRUE

\* UPDATE seat_availability SET ... IF is_available = true
CasApplies(row) == row.is_available

\* (faulty variant: the timestamp is left out of the SET clause)
ClaimedNoTime(user_id, reservation_time) ==
    [is_available |-> FALSE, reserved_by |-> user_id, reservation_time |-> NoId]

\* SET is_available = false, reserved_by = ?, reservation_time = ?
ClaimedSeat(user_id, reservation_time) ==
    [is_available |-> FALSE, reserved_by |-> user_id, reservation_time |-> reservation_time]

\* (faulty variant: holder and timestamp are written whether or not the
\* condition held)
CasWriteAlways(row, user_id, reservation_time) == ClaimedSeat(user_id, reservation_time)

\* the row after the conditional write: changed only if the condition held
CasWrite(row, user_id, reservation_time) ==
    IF CasApplies(row) THEN ClaimedSeat(user_id, reservation_time) ELSE row

\* (faulty variant: a call that lost the seat falls back to sampling another)
RetryOther(a) == [a EXCEPT !.pc = "sample"]

\* lines 200-202: return None, "Seat ... already taken"
LostRace(a) == [a EXCEPT !.pc = "returned", !.ret = "taken"]

\* lines 189-202
ConditionalWrite(t) ==
    /\ att[t].pc = "cas"
    /\ LET k == <<att[t].flight_id, att[t].preferred_seat>>
           a == [att[t] EXCEPT !.cas = @ + 1] IN
         /\ seat_availability' = [seat_availability EXCEPT ![k] =
                CasWrite(@, att[t].user_id, att[t].reservation_time)]
         /\ IF CasApplies(seat_availability[k])
            THEN att' = [u \in Threads |->
                           IF u = t
                           THEN [a EXCEPT !.pc = "insert", !.applied = TRUE,
                                          !.overtaken = FALSE]
                           ELSE IF /\ att[u].pc = "cas" /\ att[u].sampled
                                   /\ k = <<att[u].flight_id, att[u].preferred_seat>>
                                THEN [att[u] EXCEPT !.overtaken = TRUE]
                                ELSE att[u]]
            ELSE att' = [att EXCEPT ![t] = LostRace(a)]
    /\ UNCHANGED <<flights, reservations, issued, holder, upd, faults, log, metrics, drivers>>

ConditionalWriteFails(t) ==
    /\ att[t].pc = "cas"
    /\ Fault
    /\ att' = [att EXCEPT ![t] = Raise([@ EXCEPT !.cas = @ + 1], "cas")]
    /\ UNCHANGED <<store, issued, holder, upd, log, metrics, drivers>>

\* lines 204-211
InsertReservation(t) ==
    /\ att[t].pc = "insert"
    /\ reservations' =
         [r \in DOMAIN reservations \cup {att[t].reservation_id} |->
            IF r = att[t].reservation_id
            THEN [flight_id |-> att[t].flight_id, user_id |-> att[t].user_id,
                  seat_number |-> att[t].preferred_seat,
                  reservation_time |-> att[t].reservation_time, status |-> "confirmed"]
            ELSE reservations[r]]
    /\ att' = [att EXCEPT ![t].pc = "read"]
    /\ UNCHANGED <<seat_availability, flights, issued, holder, upd, faults, log, metrics, drivers>>

InsertFails(t) ==
    /\ att[t].pc = "insert"
    /\ Fault
    /\ att' = [att EXCEPT ![t] = Raise(@, "insert")]
    /\ UNCHANGED <<store, issued, holder, upd, log, metrics, drivers>>

\* lines 213-218
ReadCounter(t) ==
    /\ att[t].pc = "read"
    /\ att' = [att EXCEPT ![t].pc = "write", ![t].current_seats = flights[att[t].flight_id]]
    /\ UNCHANGED <<store, issued, holder, upd, faults, log, metrics, drivers>>

ReadCounterFails(t) ==
    /\ att[t].pc = "read"
    /\ Fault
    /\ att' = [att EXCEPT ![t] = Raise(@, "read")]
    /\ UNCHANGED <<store, issued, holder, upd, log, metrics, drivers>>

\* (faulty variant: the store decrements the value it holds at the write)
CounterDecrement(f, current_seats) == flights[f] - 1

\* [current_seats - 1, flight_id]: the value the UPDATE flights is given
CounterAfter(f, current_seats) == current_seats - 1

\* lines 220-225
WriteCounter(t) ==
    /\ att[t].pc = "write"
    /\ flights' = [flights EXCEPT ![att[t].flight_id] =
                      CounterAfter(att[t].flight_id, att[t].current_seats)]
    /\ att' = [att EXCEPT ![t].pc = "returned", ![t].ret = "reserved"]
    /\ UNCHANGED <<seat_availability, reservations, issued, holder, upd, faults, log, metrics, drivers>>

WriteCounterFails(t) ==
    /\ att[t].pc = "write"
    /\ Fault
    /\ att' = [att EXCEPT ![t] = Raise(@, "write")]
    /\ UNCHANGED <<store, issued, holder, upd, log, metrics, drivers>>

\* lines 229-240: the rollback statement is prepared outside the inner try
RollbackPrepareFails(t) ==
    /\ att[t].pc = "except"
    /\ Fault
    /\ att' = [att EXCEPT ![t].pc = "returned", ![t].ret = "raised"]
    /\ UNCHANGED <<store, issued, holder, upd, log, metrics, drivers>>

\* (faulty variant: the rollback resets the flag and leaves holder and timestamp)
RevertFlagOnly(row) == [row EXCEPT !.is_available = TRUE]

\* SET is_available = true, reserved_by = null, reservation_time = null
RevertedSeat(row) == FreeSeat

Rollback(t) ==
    /\ att[t].pc = "except"
    /\ seat_availability' =
         [seat_availability EXCEPT ![<<att[t].flight_id, att[t].preferred_seat>>] =
             RevertedSeat(@)]
    /\ att' = [att EXCEPT ![t].pc = "returned", ![t].ret = "failed", ![t].rolled = TRUE]
    /\ UNCHANGED <<flights, reservations, issued, holder, upd, faults, log, metrics, drivers>>

RollbackFails(t) ==
    /\ att[t].pc = "except"
    /\ Fault
    /\ att' = [att EXCEPT ![t].pc = "returned", ![t].ret = "failed"]
    /\ UNCHANGED <<store, issued, holder, upd, log, metrics, drivers>>

\* one step of a make_reservation_safe call whose storage call succeeds
AttemptStep(t) ==
    \/ SampleSeats(t)
    \/ ConditionalWrite(t)
    \/ InsertReservation(t)
    \/ ReadCounter(t)
    \/ WriteCounter(t)

\* one step of a make_reservation_safe call whose storage call throws, and the
\* steps of the exception handler
AttemptFault(t) ==
    \/ SampleFails(t)
    \/ ConditionalWriteFails(t)
    \/ InsertFails(t)
    \/ ReadCounterFails(t)
    \/ WriteCounterFails(t)
    \/ RollbackPrepareFails(t)
    \/ Rollback(t)
    \/ RollbackFails(t)

\* what the caller gets back: (reservation_id | None, message) or an exception
LogEntry(t) ==
    [thread |-> t, n |-> issued[t], id |-> att[t].reservation_id, user_id |-> att[t].user_id,
     flight_id |-> att[t].flight_id, seat |-> att[t].preferred_seat, ret |-> att[t].ret,
     given |-> att[t].given, sampled |-> att[t].sampled, overtaken |-> att[t].overtaken,
     cas |-> att[t].cas, applied |-> att[t].applied, threw |-> att[t].threw,
     rolled |-> att[t].rolled, pc |-> att[t].pc, current_seats |-> att[t].current_seats]

(* ------------------- direct callers (API workload) -------------------- *)
\* every thread is one caller making one call, whose result it then holds; the
\* calls overlap freely
ApiCall(t) ==
    /\ issued[t] = 0
    /\ \E f \in Flights, s \in Labels \cup {NoSeat} : StartAttempt(t, holder[t], f, s)
    /\ UNCHANGED <<store, holder, upd, faults, log, metrics, drivers>>

\* the callers one after the other: a call starts when no other call is running,
\* and no statement throws
SeqCall(t) ==
    /\ \A u \in Threads : att[u].pc \in {"idle", "returned"}
    /\ ApiCall(t)

SeqNext ==
    \E t \in Threads :
        \/ SeqCall(t)
        \/ AttemptStep(t)

(* -------------------------- StressTestResults ------------------------- *)
\* __init__
NewResults ==
    [successful_reservations |-> 0, failed_reservations |-> 0, errors |-> <<>>,
     response_times |-> <<>>, reservations_by_client |-> <<>>]

\* reservations_by_client[client_id] += 1 on a defaultdict(int)
Bump(d, c) ==
    [x \in DOMAIN d \cup {c} |-> IF x \in DOMAIN d THEN d[x] + (IF x = c THEN 1 ELSE 0) ELSE 1]

\* the body of record_success, run under self.lock
RecordSuccess(r, response_time, client_id) ==
    [r EXCEPT !.successful_reservations = @ + 1,
              !.response_times = Append(@, response_time),
              !.reservations_by_client = IF client_id # NoClient THEN Bump(@, client_id) ELSE @]

\* the body of record_failure, run under self.lock
RecordFailure(r, error_msg, response_time, client_id) ==
    [r EXCEPT !.failed_reservations = @ + 1,
              !.errors = Append(@, error_msg),
              !.response_times = Append(@, response_time)]

RECURSIVE SumSeq(_)
SumSeq(q) == IF q = <<>> THEN 0 ELSE Head(q) + SumSeq(Tail(q))

\* the body of get_stats, run under self.lock; a quotient is kept as the pair
\* <<numerator, denominator>>
GetStats(r) ==
    LET total == r.successful_reservations + r.failed_reservations IN
    [total_requests |-> total,
     successful |-> r.successful_reservations,
     failed |-> r.failed_reservations,
     success_rate |-> IF total > 0 THEN <<r.successful_reservations * 100, total>> ELSE <<0, 1>>,
     avg_response_time |-> IF r.response_times # <<>>
                           THEN <<SumSeq(r.response_times), Len(r.response_times)>>
                           ELSE <<0, 1>>,
     unique_errors |-> Cardinality({r.errors[i] : i \in DOMAIN r.errors}),
     client_distribution |-> r.reservations_by_client]

NoStats == GetStats(NewResults)

\* the message a failed call hands to record_failure
Message(a) ==
    [tag |-> a.ret,
     seat |-> IF a.ret = "taken" THEN a.preferred_seat ELSE NoSeat,
     what |-> a.threw]

\* time.time() - start_time: the latency sample of a call
Latency == 1

\* (faulty variant: no "except Exception" around the call)
RecordIfReturned(r, a, client_id) ==
    IF a.ret = "reserved" THEN RecordSuccess(r, Latency, client_id)
    ELSE IF a.ret = "raised" THEN r
    ELSE RecordFailure(r, Message(a), Latency, client_id)

\* the harness's "if reservation_id: record_success ... else: record_failure",
\* and its "except Exception" around the call
RecordOutcome(r, a, client_id) ==
    IF a.ret = "reserved"
    THEN RecordSuccess(r, Latency, client_id)
    ELSE RecordFailure(r, Message(a), Latency, client_id)

(* ------------------------- _analyze_fairness -------------------------- *)
SetMin(S) == CHOOSE x \in S : \A y \in S : x <= y
SetMax(S) == CHOOSE x \in S : \A y \in S : x >= y

\* (faulty variant: a strict comparison with the threshold)
RatioAbove(mn, mx) ==
    IF mx > 0 THEN FairnessDen * mn > FairnessNum * mx ELSE FALSE

\* fairness_ratio >= 0.3, fairness_ratio = min / max if max > 0 else 0; for the
\* counts of a run the float quotient compares with 0.3 as the exact one does
RatioPasses(mn, mx) ==
    IF mx > 0 THEN FairnessDen * mn >= FairnessNum * mx ELSE FALSE

AnalyzeFairness(stats, seats_reserved, total_seats) ==
    LET client_dist == stats.client_distribution
        client_counts == {client_dist[c] : c \in DOMAIN client_dist}
    IN [fairness |->
           IF Cardinality(DOMAIN client_dist) >= 2
           THEN IF SetMin(client_counts) > 0
                THEN IF RatioPasses(SetMin(client_counts), SetMax(client_counts))
                     THEN "passed" ELSE "concern"
                ELSE "failed_none"
           ELSE "failed_nodata",
        no_overselling |-> seats_reserved <= total_seats,
        seats_reserved |-> seats_reserved,
        total_seats |-> total_seats]

(* -------------------------- get_flight_status ------------------------- *)
GetFlightStatus(f) ==
    [total_seats |-> Cardinality({k \in SeatKeys : k[1] = f}),
     available_seats |-> flights[f],
     actual_reservations |->
        Cardinality({r \in DOMAIN reservations :
            reservations[r].flight_id = f /\ reservations[r].status = "confirmed"})]

(* ------------------------- update_reservation ------------------------- *)
\* no update_reservation call made yet. found, wrote, crossed, last, before and
\* after are history: what the SELECT found, whether the UPDATE ran, whether
\* another UPDATE of the same record ran between this call's SELECT and its
\* UPDATE, whether this call's UPDATE is the latest one on its record, and the
\* record just before and just after this call's UPDATE.
IdleUpdate ==
    [pc |-> "idle", reservation_id |-> NoId, new_seat |-> NoSeat, new_status |-> NoStatus,
     current |-> NoRow, ret |-> "none",
     found |-> "unread", wrote |-> FALSE, crossed |-> FALSE, last |-> FALSE,
     before |-> NoRow, after |-> NoRow]

\* SELECT * FROM reservations WHERE reservation_id = ?; result.one()
SelectReservation(reservation_id) ==
    IF reservation_id \in DOMAIN reservations THEN reservations[reservation_id] ELSE NoRow

\* (faulty variant: the "if not current" check is missing)
NotFoundNever(current) == FALSE

\* if not current
NotFound(current) == current = NoRow

\* (faulty variant: a missing status is replaced by the default of new records)
DefaultStatus(new_status, current) ==
    IF new_status # NoStatus THEN new_status ELSE "confirmed"

\* final_seat = new_seat if new_seat else current.seat_number
FinalSeat(new_seat, current) ==
    IF new_seat # NoSeat THEN new_seat ELSE current.seat_number

\* final_status = new_status if new_status else current.status
FinalStatus(new_status, current) ==
    IF new_status # NoStatus THEN new_status ELSE current.status

\* (faulty variant: the UPDATE has no WHERE clause)
UpdateEveryRow(table, reservation_id, final_seat, final_status) ==
    [r \in DOMAIN table \cup {reservation_id} |->
        [(IF r \in DOMAIN table THEN table[r] ELSE NoRow)
            EXCEPT !.seat_number = final_seat, !.status = final_status]]

\* (faulty variant: the UPDATE sets seat_number only)
UpdateSeatOnly(table, reservation_id, final_seat, final_status) ==
    [r \in DOMAIN table \cup {reservation_id} |->
        IF r = reservation_id
        THEN [(IF r \in DOMAIN table THEN table[r] ELSE NoRow)
                 EXCEPT !.seat_number = final_seat]
        ELSE table[r]]

\* UPDATE reservations SET seat_number = ?, status = ? WHERE reservation_id = ?:
\* an upsert, the columns it does not name stay as they are (null in a new row)
UpdateRow(table, reservation_id, final_seat, final_status) ==
    [r \in DOMAIN table \cup {reservation_id} |->
        IF r = reservation_id
        THEN [(IF r \in DOMAIN table THEN table[r] ELSE NoRow)
                 EXCEPT !.seat_number = final_seat, !.status = final_status]
        ELSE table[r]]

\* lines 283-288
StartUpdate(t, reservation_id, new_seat, new_status) ==
    /\ upd[t].pc = "idle"
    /\ upd' = [upd EXCEPT ![t] =
            [IdleUpdate EXCEPT !.reservation_id = reservation_id, !.new_seat = new_seat,
                               !.new_status = new_status,
                               !.pc = IF new_seat = NoSeat /\ new_status = NoStatus
                                      THEN "returned" ELSE "select",
                               !.ret = IF new_seat = NoSeat /\ new_status = NoStatus
                                       THEN "false" ELSE "none"]]

\* lines 292-298
UpdateSelect(t) ==
    /\ upd[t].pc = "select"
    /\ LET current == SelectReservation(upd[t].reservation_id)
           found == IF upd[t].reservation_id \in DOMAIN reservations THEN "yes" ELSE "no" IN
         IF NotFound(current)
         THEN upd' = [upd EXCEPT ![t].pc = "returned", ![t].ret = "false", ![t].found = found]
         ELSE upd' = [upd EXCEPT ![t].pc = "write", ![t].current = current, ![t].found = found]
    /\ UNCHANGED <<store, att, issued, holder, faults, log, metrics, drivers>>

\* lines 321-323: the prepare or the SELECT throws
UpdateSelectFails(t) ==
    /\ upd[t].pc = "select"
    /\ Fault
    /\ upd' = [upd EXCEPT ![t].pc = "returned", ![t].ret = "false"]
    /\ UNCHANGED <<store, att, issued, holder, log, metrics, drivers>>

\* lines 301-319
UpdateWrite(t) ==
    /\ upd[t].pc = "write"
    /\ LET id == upd[t].reservation_id
           final_seat == FinalSeat(upd[t].new_seat, upd[t].current)
           final_status == FinalStatus(upd[t].new_status, upd[t].current)
           table == UpdateRow(reservations, id, final_seat, final_status) IN
         /\ reservations' = table
         /\ upd' = [u \in Threads |->
                      IF u = t
                      THEN [upd[t] EXCEPT !.pc = "returned", !.ret = "true", !.wrote = TRUE,
                                          !.last = TRUE,
                                          !.before = SelectReservation(id), !.after = table[id]]
                      ELSE IF upd[u].reservation_id = id
                           THEN [upd[u] EXCEPT !.crossed = (@ \/ upd[u].pc = "write"),
                                               !.last = FALSE]
                           ELSE upd[u]]
    /\ UNCHANGED <<seat_availability, flights, att, issued, holder, faults, log, metrics, drivers>>

\* lines 321-323: the prepare or the UPDATE throws
UpdateWriteFails(t) ==
    /\ upd[t].pc = "write"
    /\ Fault
    /\ upd' = [upd EXCEPT ![t].pc = "returned", ![t].ret = "false"]
    /\ UNCHANGED <<store, att, issued, holder, log, metrics, drivers>>

UpdateStep(t) ==
    \/ UpdateSelect(t)
    \/ UpdateWrite(t)

UpdateFault(t) ==
    \/ UpdateSelectFails(t)
    \/ UpdateWriteFails(t)

IdleRec == [pc |-> "idle", kind |-> "none", client_id |-> NoClient, tmp |-> 0, made |-> 0]
IdleWorker == [pc |-> "off", client_reservations |-> 0]
IdleDriver == [pc |-> "none"]

InitStore ==
    /\ seat_availability = NewSeats
    /\ flights = NewFlights
    /\ reservations = <<>>

InitCommon ==
    /\ att = [t \in Threads |-> IdleAttempt]
    /\ issued = [t \in Threads |-> 0]
    /\ faults = 0
    /\ log = {}
    /\ results = NewResults
    /\ lock = {}
    /\ rec = [t \in Threads |-> IdleRec]
    /\ worker = [t \in Threads |-> IdleWorker]
    /\ upd = [t \in Threads |-> IdleUpdate]

\* two callers acting for the same user and one acting for another
Holders == {[t \in Threads |-> IF t = 1 THEN "u1" ELSE "u2"]}

Init ==
    /\ InitStore
    /\ InitCommon
    /\ holder \in Holders
    /\ h = IdleDriver

Next ==
    \E t \in Threads :
        \/ ApiCall(t)
        \/ AttemptStep(t)
        \/ AttemptFault(t)

Spec == Init /\ [][Next]_vars

SpecSeq == Init /\ [][SeqNext]_vars

\* the callers overlapping freely; the third caller takes the result of its first
\* call and makes a second one; one statement of a run may throw
TakeResult(t) ==
    /\ t = 3
    /\ att[t].pc = "returned"
    /\ issued[t] = 1
    /\ att' = [att EXCEPT ![t] = IdleAttempt]
    /\ UNCHANGED <<store, issued, holder, upd, faults, log, metrics, drivers>>

CallAgain(t) ==
    /\ issued[t] = 1
    /\ \E f \in Flights, s \in Labels \cup {NoSeat} : StartAttempt(t, holder[t], f, s)
    /\ UNCHANGED <<store, holder, upd, faults, log, metrics, drivers>>

OneFault(t) ==
    /\ faults = 0 \/ att[t].pc = "except"
    /\ AttemptFault(t)

AgainNext ==
    \E t \in Threads :
        \/ ApiCall(t)
        \/ AttemptStep(t)
        \/ OneFault(t)
        \/ TakeResult(t)
        \/ CallAgain(t)

SpecAgain == Init /\ [][AgainNext]_vars

(* ------------------------ workload start states ----------------------- *)
\* the store a workload starts from: a flight of which the seats P were claimed
\* before, without faults and one at a time, by user u1
UsedSeats(P) ==
    [k \in SeatKeys |->
        IF \E n \in P : SeatLabel(n) = k[2]
        THEN [is_available |-> FALSE, reserved_by |-> "u1",
              reservation_time |-> <<0, CHOOSE n \in P : SeatLabel(n) = k[2]>>]
        ELSE FreeSeat]

UsedReservations(P) ==
    [r \in {<<0, n>> : n \in P} |->
        [flight_id |-> "f1", user_id |-> "u1", seat_number |-> SeatLabel(r[2]),
         reservation_time |-> r, status |-> "confirmed"]]

InitUsedStore(P) ==
    /\ seat_availability = UsedSeats(P)
    /\ flights = [f \in Flights |-> NumSeats - Cardinality(P)]
    /\ reservations = UsedReservations(P)

(* -------------------- stress_test_1_rapid_requests -------------------- *)
\* one user, num_requests calls one after the other, made by thread 1
SerialInit ==
    /\ InitCommon
    /\ holder = [t \in Threads |-> NullUser]
    /\ \E P \in SUBSET SeatNums, u \in Users, f \in Flights, n \in 0..MaxRequests :
          /\ InitUsedStore(P)
          /\ h = [pc |-> "loop", user_id |-> u, flight_id |-> f, num_requests |-> n,
                  avail0 |-> SeatNums \ P, stats |-> NoStats]

\* lines 437-440
SerialCall(t) ==
    /\ h.pc = "loop"
    /\ issued[t] < h.num_requests
    /\ StartAttempt(t, h.user_id, h.flight_id, NoSeat)
    /\ UNCHANGED <<store, holder, upd, faults, log, metrics, drivers>>

\* lines 441-456
SerialRecord(t) ==
    /\ h.pc = "loop"
    /\ att[t].pc = "returned"
    /\ results' = RecordOutcome(results, att[t], NoClient)
    /\ log' = log \cup {LogEntry(t)}
    /\ att' = [att EXCEPT ![t] = IdleAttempt]
    /\ UNCHANGED <<store, issued, holder, upd, faults, lock, rec, drivers>>

\* lines 458-470
SerialFinish(t) ==
    /\ h.pc = "loop"
    /\ att[t].pc = "idle"
    /\ issued[t] = h.num_requests
    /\ h' = [h EXCEPT !.pc = "done", !.stats = GetStats(results)]
    /\ UNCHANGED <<store, att, issued, holder, upd, faults, log, metrics, worker>>

SerialNext ==
    \E t \in {1} :
        \/ SerialCall(t)
        \/ AttemptStep(t)
        \/ AttemptFault(t)
        \/ SerialRecord(t)
        \/ SerialFinish(t)

SpecSerial == SerialInit /\ [][SerialNext]_vars

(* ------------------- stress_test_2_multiple_clients ------------------- *)
\* the worker with client_id i runs on thread i + 1
ClientId(t) == t - 1

\* client_worker(i) for i in range(num_clients)
Clients == {t \in Workers : ClientId(t) < h.num_clients}

\* the state in which stress_test_2_multiple_clients is called: the first k seats
\* of the flight were claimed before, user_ids holds one user
ClientsInit ==
    /\ InitCommon
    /\ holder = [t \in Threads |-> NullUser]
    /\ \E P \in {1..k : k \in 0..NumSeats}, U \in {{"u1"}}, num_clients \in 1..Cardinality(Workers),
          requests_per_client \in 0..MaxPerClient :
          /\ InitUsedStore(P)
          /\ h = [pc |-> "start", user_ids |-> U, flight_ids |-> Flights,
                  num_clients |-> num_clients, requests_per_client |-> requests_per_client,
                  avail0 |-> SeatNums \ P, stats |-> NoStats]

\* lines 477 and 505-507: a new StressTestResults, one client_worker per client
ClientsBegin ==
    /\ h.pc = "start"
    /\ h' = [h EXCEPT !.pc = "clients"]
    /\ worker' = [t \in Threads |-> IF t \in Clients
                                    THEN [pc |-> "loop", client_reservations |-> 0]
                                    ELSE IdleWorker]
    /\ results' = NewResults
    /\ UNCHANGED <<store, att, issued, holder, faults, log, lock, rec, upd>>

\* lines 481-486: the next request of a client, for a random user and flight
ClientsCall(t) ==
    /\ h.pc = "clients"
    /\ worker[t].pc = "loop"
    /\ issued[t] < h.requests_per_client
    /\ \E user_id \in h.user_ids, flight_id \in h.flight_ids :
          StartAttempt(t, user_id, flight_id, NoSeat)
    /\ UNCHANGED <<store, holder, upd, faults, log, metrics, drivers>>

\* lines 487-500
ClientsRecord(t) ==
    /\ h.pc = "clients"
    /\ worker[t].pc = "loop"
    /\ att[t].pc = "returned"
    /\ results' = RecordOutcome(results, att[t], ClientId(t))
    /\ worker' = [worker EXCEPT ![t].client_reservations =
                        IF att[t].ret = "reserved" THEN @ + 1 ELSE @]
    /\ att' = [att EXCEPT ![t] = IdleAttempt]
    /\ UNCHANGED <<store, issued, holder, upd, faults, log, lock, rec, h>>

\* lines 481, 502: range(requests_per_client) is used up
ClientsExit(t) ==
    /\ h.pc = "clients"
    /\ worker[t].pc = "loop"
    /\ att[t].pc = "idle"
    /\ issued[t] = h.requests_per_client
    /\ worker' = [worker EXCEPT ![t].pc = "finished"]
    /\ UNCHANGED <<store, att, issued, holder, upd, faults, log, metrics, h>>

\* lines 506-514
ClientsFinish ==
    /\ h.pc = "clients"
    /\ \A t \in Clients : worker[t].pc = "finished"
    /\ h' = [h EXCEPT !.pc = "done", !.stats = GetStats(results)]
    /\ UNCHANGED <<store, att, issued, holder, upd, faults, log, metrics, worker>>

\* a statement of a client's call throws (the first storage fault of the run),
\* or the call's handler runs
ClientsFault(t) ==
    /\ faults = 0 \/ att[t].pc = "except"
    /\ AttemptFault(t)

ClientsNext ==
    \/ ClientsBegin
    \/ ClientsFinish
    \/ \E t \in Workers :
          \/ ClientsCall(t)
          \/ AttemptStep(t)
          \/ ClientsFault(t)
          \/ ClientsRecord(t)
          \/ ClientsExit(t)

\* the two workloads that make num_requests, or num_clients * requests_per_client, calls
HarnessNext ==
    \/ ClientsNext
    \/ \E t \in {1} :
          \/ SerialCall(t)
          \/ SerialRecord(t)
          \/ SerialFinish(t)

SpecHarness == (SerialInit \/ ClientsInit) /\ [][HarnessNext]_vars

(* ------------------- stress_test_3_seat_competition ------------------- *)
NoVerdict == [fairness |-> "none", no_overselling |-> TRUE, seats_reserved |-> 0,
              total_seats |-> 0]

\* the values of the num_clients parameter: the default and the menu's other one
NumClientsArgs == {2, 3}

\* the state in which stress_test_3_seat_competition(user_ids, flight_ids,
\* num_clients) is called, num_clients being one of NC
CompeteInitFor(NC) ==
    /\ InitCommon
    /\ holder = [t \in Threads |-> NullUser]
    /\ \E P \in SUBSET SeatNums, U \in {{"u1"}, Users}, f \in Flights,
          num_clients \in NC :
          /\ InitUsedStore(P)
          /\ h = [pc |-> "start", user_ids |-> U, target_flight |-> f,
                  num_clients |-> num_clients, total_seats |-> 0,
                  avail0 |-> SeatNums \ P, seats_reserved |-> 0, stats |-> NoStats,
                  verdict |-> NoVerdict]

\* the call with num_clients left at its default
CompeteInit == CompeteInitFor({2})

\* lines 522-527: get_flight_status returned None
CompeteNoStatus ==
    /\ h.pc = "start"
    /\ Fault
    /\ h' = [h EXCEPT !.pc = "aborted"]
    /\ UNCHANGED <<store, att, issued, holder, upd, log, metrics, worker>>

\* lines 533-536
CompeteTooFewUsers ==
    /\ h.pc = "start"
    /\ Cardinality(h.user_ids) < Cardinality(Workers)
    /\ h' = [h EXCEPT !.pc = "aborted"]
    /\ UNCHANGED <<store, att, issued, holder, upd, faults, log, metrics, worker>>

\* (faulty variant: the two users are drawn with replacement)
SelectedWithRepeats(user_ids) == [Workers -> user_ids]

\* random.sample(user_ids, 2): two different users, in any order
SelectedUsers(user_ids) ==
    {su \in [Workers -> user_ids] : \A a, b \in Workers : su[a] = su[b] => a = b}

\* lines 522-541 and 582-586: total_seats is the flight's counter; two distinct
\* users are drawn and the two workers submitted
CompeteBegin ==
    /\ h.pc = "start"
    /\ Cardinality(h.user_ids) >= Cardinality(Workers)
    /\ h' = [h EXCEPT !.pc = "running",
                      !.total_seats = GetFlightStatus(h.target_flight).available_seats]
    /\ \E selected_users \in SelectedUsers(h.user_ids) :
          holder' = [t \in Threads |-> IF t \in Workers THEN selected_users[t] ELSE NullUser]
    /\ worker' = [t \in Threads |-> IF t \in Workers
                                    THEN [pc |-> "loop", client_reservations |-> 0]
                                    ELSE IdleWorker]
    /\ results' = NewResults
    /\ UNCHANGED <<store, att, issued, faults, log, lock, rec, upd>>

\* lines 549-552
CompeteCall(t) ==
    /\ h.pc = "running"
    /\ worker[t].pc = "loop"
    /\ issued[t] < h.total_seats
    /\ StartAttempt(t, holder[t], h.target_flight, NoSeat)
    /\ UNCHANGED <<store, holder, upd, faults, log, metrics, drivers>>

\* (faulty variant: the loop is left after any failed call)
StopsOnAnyFailure(a) == a.ret # "reserved"

\* if "No seats available" in message: break
StopsLoop(a) == a.ret = "noseats"

\* lines 553-573: count and record the outcome; 'No seats available' ends the loop
CompeteTally(t) ==
    /\ worker[t].pc = "loop"
    /\ att[t].pc = "returned"
    /\ results' = RecordOutcome(results, att[t], ClientId(t))
    /\ worker' = [worker EXCEPT ![t] =
            IF att[t].ret = "reserved" THEN [@ EXCEPT !.client_reservations = @ + 1]
            ELSE IF StopsLoop(att[t]) THEN [@ EXCEPT !.pc = "finished"]
            ELSE @]
    /\ att' = [att EXCEPT ![t] = IdleAttempt]
    /\ UNCHANGED <<store, issued, holder, upd, faults, lock, rec, h>>

\* the same step with the call added to the history
CompeteRecord(t) ==
    /\ CompeteTally(t)
    /\ log' = log \cup {LogEntry(t)}

\* the same step with no history kept
CompeteRecordOnly(t) ==
    /\ CompeteTally(t)
    /\ UNCHANGED log

\* lines 549, 575-576: range(max_attempts) is used up
CompeteExit(t) ==
    /\ h.pc = "running"
    /\ worker[t].pc = "loop"
    /\ att[t].pc = "idle"
    /\ issued[t] >= h.total_seats
    /\ worker' = [worker EXCEPT ![t].pc = "finished"]
    /\ UNCHANGED <<store, att, issued, holder, upd, faults, log, metrics, h>>

\* lines 587-608
CompeteFinish ==
    /\ h.pc = "running"
    /\ \A t \in Workers : worker[t].pc = "finished"
    /\ LET final_status == GetFlightStatus(h.target_flight)
           seats_reserved == final_status.total_seats - final_status.available_seats
           stats == GetStats(results)
       IN h' = [h EXCEPT !.pc = "done", !.seats_reserved = seats_reserved, !.stats = stats,
                         !.verdict = AnalyzeFairness(stats, seats_reserved, h.total_seats)]
    /\ UNCHANGED <<store, att, issued, holder, upd, faults, log, metrics, worker>>

\* lines 592-593: get_flight_status returned None, the subscript raises
CompeteFinalStatusFails ==
    /\ h.pc = "running"
    /\ \A t \in Workers : worker[t].pc = "finished"
    /\ Fault
    /\ h' = [h EXCEPT !.pc = "raised"]
    /\ UNCHANGED <<store, att, issued, holder, upd, log, metrics, worker>>

\* the workload when no storage call throws
CompeteNext ==
    \/ CompeteTooFewUsers
    \/ CompeteBegin
    \/ CompeteFinish
    \/ \E t \in Workers :
          \/ CompeteCall(t)
          \/ AttemptStep(t)
          \/ CompeteRecord(t)
          \/ CompeteExit(t)

SpecCompete == CompeteInit /\ [][CompeteNext]_vars

\* a statement of a worker's call throws (the first storage fault of the run),
\* or the call's handler runs
CompeteFault(t) ==
    /\ faults = 0 \/ att[t].pc = "except"
    /\ AttemptFault(t)

\* the workload with a call whose storage statements throw
CompeteFaultsNext ==
    \/ CompeteTooFewUsers
    \/ CompeteBegin
    \/ CompeteFinish
    \/ \E t \in Workers :
          \/ CompeteCall(t)
          \/ AttemptStep(t)
          \/ CompeteFault(t)
          \/ CompeteRecordOnly(t)
          \/ CompeteExit(t)

SpecCompeteFaults == CompeteInit /\ [][CompeteFaultsNext]_vars

\* the workload with any num_clients and a flight status that may be unreadable
CompeteStatusNext ==
    \/ CompeteNext
    \/ CompeteNoStatus
    \/ CompeteFinalStatusFails

SpecCompeteStatus == CompeteInitFor(NumClientsArgs) /\ [][CompeteStatusNext]_vars

(* ---------------- _analyze_fairness on per-worker counts -------------- *)
\* two workers record successes and failures, then the run is analysed
FairClients == {ClientId(t) : t \in Workers}

FairInit ==
    /\ InitStore
    /\ InitCommon
    /\ holder = [t \in Threads |-> NullUser]
    /\ h = [pc |-> "tally", calls |-> [c \in FairClients |-> 0], failed |-> 0,
            stats |-> NoStats, verdict |-> NoVerdict]

FairSuccess(c) ==
    /\ h.pc = "tally"
    /\ h.calls[c] < MaxCount
    /\ results' = RecordSuccess(results, Latency, c)
    /\ h' = [h EXCEPT !.calls[c] = @ + 1]
    /\ UNCHANGED <<store, att, issued, holder, upd, faults, log, lock, rec, worker>>

FairFailure(c) ==
    /\ h.pc = "tally"
    /\ h.failed < MaxFailed
    /\ results' = RecordFailure(results, [tag |-> "noseats", seat |-> NoSeat, what |-> "none"],
                                Latency, c)
    /\ h' = [h EXCEPT !.failed = @ + 1]
    /\ UNCHANGED <<store, att, issued, holder, upd, faults, log, lock, rec, worker>>

FairAnalyze ==
    /\ h.pc = "tally"
    /\ \E seats_reserved \in 0..NumSeats, total_seats \in 0..NumSeats :
          h' = [h EXCEPT !.pc = "done", !.stats = GetStats(results),
                         !.verdict = AnalyzeFairness(GetStats(results), seats_reserved,
                                                     total_seats)]
    /\ UNCHANGED <<store, att, issued, holder, upd, faults, log, metrics, worker>>

FairNext ==
    \/ \E c \in FairClients : FairSuccess(c) \/ FairFailure(c)
    \/ FairAnalyze

SpecFair == FairInit /\ [][FairNext]_vars

(* ------------- StressTestResults under concurrent callers ------------- *)
\* (faulty variant: the lock is not taken)
AcquireAlways(l) == TRUE

\* threading.Lock: acquired only when no thread holds it
CanAcquire(l) == l = {}

MetricsInit ==
    /\ InitStore
    /\ InitCommon
    /\ holder = [t \in Threads |-> NullUser]
    /\ h = [pc |-> "run", successes |-> 0, failures |-> 0, stats |-> NoStats,
            at |-> [successes |-> 0, failures |-> 0, samples |-> 0, messages |-> 0],
            by |-> [c \in {ClientId(t) : t \in Workers} |-> 0]]

\* a worker calls record_success or record_failure and enters "with self.lock"
RecordEnter(t) ==
    /\ rec[t].pc = "idle"
    /\ rec[t].made < MaxCalls
    /\ CanAcquire(lock)
    /\ lock' = lock \cup {t}
    /\ \E kind \in {"success", "failure"}, client_id \in {ClientId(t), NoClient} :
          rec' = [rec EXCEPT ![t] = [pc |-> "count_read", kind |-> kind,
                                     client_id |-> client_id, tmp |-> 0, made |-> @.made + 1]]
    /\ UNCHANGED <<store, att, issued, holder, upd, faults, log, results, drivers>>

\* self.successful_reservations += 1 / self.failed_reservations += 1: the read
RecordReadCount(t) ==
    /\ rec[t].pc = "count_read"
    /\ rec' = [rec EXCEPT ![t].pc = "count_write",
                          ![t].tmp = IF rec[t].kind = "success"
                                     THEN results.successful_reservations
                                     ELSE results.failed_reservations]
    /\ UNCHANGED <<store, att, issued, holder, upd, faults, log, results, lock, drivers>>

\* ... and the write
RecordWriteCount(t) ==
    /\ rec[t].pc = "count_write"
    /\ results' = IF rec[t].kind = "success"
                  THEN [results EXCEPT !.successful_reservations = rec[t].tmp + 1]
                  ELSE [results EXCEPT !.failed_reservations = rec[t].tmp + 1]
    /\ rec' = [rec EXCEPT ![t].pc = IF rec[t].kind = "success" THEN "append_time"
                                    ELSE "append_error"]
    /\ UNCHANGED <<store, att, issued, holder, upd, faults, log, lock, drivers>>

\* self.errors.append(error_msg)
RecordAppendError(t) ==
    /\ rec[t].pc = "append_error"
    /\ results' = [results EXCEPT !.errors =
                      Append(@, [tag |-> "noseats", seat |-> NoSeat, what |-> "none"])]
    /\ rec' = [rec EXCEPT ![t].pc = "append_time"]
    /\ UNCHANGED <<store, att, issued, holder, upd, faults, log, lock, drivers>>

\* (faulty variant: record_failure adds to the tally as well)
TalliesAnyCall(r) == r.client_id # NoClient

\* only record_success has "if client_id is not None: reservations_by_client[...] += 1"
Tallies(r) == r.kind = "success" /\ r.client_id # NoClient

\* self.response_times.append(response_time)
RecordAppendTime(t) ==
    /\ rec[t].pc = "append_time"
    /\ results' = [results EXCEPT !.response_times = Append(@, Latency)]
    /\ rec' = [rec EXCEPT ![t].pc = IF Tallies(rec[t]) THEN "tally_read" ELSE "release"]
    /\ UNCHANGED <<store, att, issued, holder, upd, faults, log, lock, drivers>>

\* self.reservations_by_client[client_id] += 1: the read (0 for a missing key)
RecordReadTally(t) ==
    /\ rec[t].pc = "tally_read"
    /\ rec' = [rec EXCEPT ![t].pc = "tally_write",
                          ![t].tmp = IF rec[t].client_id \in DOMAIN results.reservations_by_client
                                     THEN results.reservations_by_client[rec[t].client_id]
                                     ELSE 0]
    /\ UNCHANGED <<store, att, issued, holder, upd, faults, log, results, lock, drivers>>

\* ... and the write
RecordWriteTally(t) ==
    /\ rec[t].pc = "tally_write"
    /\ results' = [results EXCEPT !.reservations_by_client =
                      [c \in DOMAIN @ \cup {rec[t].client_id} |->
                          IF c = rec[t].client_id THEN rec[t].tmp + 1 ELSE @[c]]]
    /\ rec' = [rec EXCEPT ![t].pc = "release"]
    /\ UNCHANGED <<store, att, issued, holder, upd, faults, log, lock, drivers>>

\* (faulty variant: the lock is kept when the with-block is left)
StillHeld(l, t) == l

\* the end of "with self.lock": the holder gives the lock back
Released(l, t) == l \ {t}

\* leaving "with self.lock": the call returns
RecordLeave(t) ==
    /\ rec[t].pc = "release"
    /\ lock' = Released(lock, t)
    /\ rec' = [rec EXCEPT ![t].pc = "idle"]
    /\ h' = IF rec[t].kind = "success"
            THEN [h EXCEPT !.successes = @ + 1,
                           !.by = IF rec[t].client_id # NoClient
                                  THEN [@ EXCEPT ![rec[t].client_id] = @ + 1] ELSE @]
            ELSE [h EXCEPT !.failures = @ + 1]
    /\ UNCHANGED <<store, att, issued, holder, upd, faults, log, results, worker>>

AllReturned == \A t \in Workers : rec[t].pc = "idle" /\ rec[t].made = MaxCalls

\* get_stats by the main thread, at any time; "done" once it ran after every
\* record call returned. h.at notes what the object held and how many record
\* calls had returned when the snapshot was taken; h.by counts the
\* record_success calls that returned, by the client id they were given.
GetStatsCall ==
    /\ h.pc = "run"
    /\ CanAcquire(lock)
    /\ h' = [h EXCEPT !.stats = GetStats(results),
                      !.at = [successes |-> h.successes, failures |-> h.failures,
                              samples |-> Len(results.response_times),
                              messages |-> Len(results.errors)],
                      !.pc = IF AllReturned THEN "done" ELSE "run"]
    /\ UNCHANGED <<store, att, issued, holder, upd, faults, log, metrics, worker>>

MetricsNext ==
    \/ GetStatsCall
    \/ \E t \in Workers :
          \/ RecordEnter(t)
          \/ RecordReadCount(t)
          \/ RecordWriteCount(t)
          \/ RecordAppendError(t)
          \/ RecordAppendTime(t)
          \/ RecordReadTally(t)
          \/ RecordWriteTally(t)
          \/ RecordLeave(t)

SpecMetrics == MetricsInit /\ [][MetricsNext]_vars

(* ------------- the three workloads with the metrics lock -------------- *)
\* which workload a run is, told by the arguments it was called with
IsSerial == "num_requests" \in DOMAIN h
IsClients == "requests_per_client" \in DOMAIN h
IsCompete == "target_flight" \in DOMAIN h

LiveInit == SerialInit \/ ClientsInit \/ CompeteInit

\* the main thread creates the results object and submits the workers, or
\* returns at once
LiveBegin ==
    \/ IsClients /\ ClientsBegin
    \/ IsCompete /\ (CompeteBegin \/ CompeteTooFewUsers \/ CompeteNoStatus)

\* a worker that is not inside a record call makes its next call
LiveCall(t) ==
    /\ rec[t].pc = "idle"
    /\ \/ IsSerial /\ t = 1 /\ SerialCall(t)
       \/ IsClients /\ ClientsCall(t)
       \/ IsCompete /\ CompeteCall(t)

\* record_success / record_failure: "with self.lock" is entered
LiveAcquire(t) ==
    /\ rec[t].pc = "idle"
    /\ att[t].pc = "returned"
    /\ CanAcquire(lock)
    /\ lock' = lock \cup {t}
    /\ rec' = [rec EXCEPT ![t].pc = "with"]
    /\ UNCHANGED <<store, att, issued, holder, upd, faults, log, results, drivers>>

\* the body of the record call, run by the holder of the lock
LiveRecord(t) ==
    /\ rec[t].pc = "with"
    /\ t \in lock
    /\ \/ IsSerial /\ SerialRecord(t)
       \/ IsClients /\ ClientsRecord(t)
       \/ IsCompete /\ CompeteRecordOnly(t)

\* the with-block is left and the record call returns
LiveRelease(t) ==
    /\ rec[t].pc = "with"
    /\ att[t].pc = "idle"
    /\ lock' = Released(lock, t)
    /\ rec' = [rec EXCEPT ![t].pc = "idle"]
    /\ UNCHANGED <<store, att, issued, holder, upd, faults, log, results, drivers>>

\* range(...) is used up: the worker returns
LiveExit(t) ==
    /\ rec[t].pc = "idle"
    /\ \/ IsClients /\ ClientsExit(t)
       \/ IsCompete /\ CompeteExit(t)

\* every worker has returned from its last record call
Joined == \A t \in Workers : rec[t].pc = "idle"

\* the workers are joined; get_stats takes the lock for its body
LiveFinish ==
    /\ Joined
    /\ CanAcquire(lock)
    /\ \/ IsSerial /\ SerialFinish(1)
       \/ IsClients /\ ClientsFinish
       \/ IsCompete /\ CompeteFinish

\* the workers are joined; the final get_flight_status returns None
LiveFinalStatusFails ==
    /\ Joined
    /\ IsCompete
    /\ CompeteFinalStatusFails

\* a statement of a call throws; followed in the runs with one worker thread
LiveFault(t) ==
    /\ IsSerial \/ (IsClients /\ h.num_clients = 1)
    /\ ClientsFault(t)

\* everything one worker thread does
LiveWorker(t) ==
    \/ LiveCall(t)
    \/ AttemptStep(t)
    \/ LiveFault(t)
    \/ LiveAcquire(t)
    \/ LiveRecord(t)
    \/ LiveRelease(t)
    \/ LiveExit(t)

\* everything the main thread does
LiveMain ==
    \/ LiveBegin
    \/ LiveFinish
    \/ LiveFinalStatusFails

LiveNext ==
    \/ LiveMain
    \/ \E t \in Workers : LiveWorker(t)

\* every thread that can take a step is scheduled again
SpecLive ==
    /\ LiveInit
    /\ [][LiveNext]_vars
    /\ WF_vars(LiveMain)
    /\ \A t \in Workers : WF_vars(LiveWorker(t))

(* --------------- update_reservation next to other calls --------------- *)
\* the status values the callers pass: one of the menu's options and a string
\* that is none of them
StatusArgs == {NoStatus, "cancelled", "refunded"}

\* the seats the callers pass: none, the first and the last of the flight
SeatArgs == {NoSeat, SeatLabel(1), SeatLabel(NumSeats)}

\* the thread that claims a seat while the others update
Claimer == 3
\* the ids the updates name: the one of the record of the start state (of no
\* record, where seat 1 was free) and the one the claim is about to create
UpdateIds == {<<0, 1>>, <<Claimer, 1>>}

UpdateInit ==
    /\ \E P \in {{}, {1}} : InitUsedStore(P)
    /\ InitCommon
    /\ holder = [t \in Threads |-> IF t = Claimer THEN "u2" ELSE "u1"]
    /\ h = IdleDriver

\* lines 283-285: a caller starts its update
UpdateCall(t) ==
    /\ \E id \in UpdateIds, new_seat \in SeatArgs, new_status \in StatusArgs :
          StartUpdate(t, id, new_seat, new_status)
    /\ UNCHANGED <<store, att, issued, holder, faults, log, metrics, drivers>>

UpdateNext ==
    \/ \E t \in Workers : UpdateCall(t) \/ UpdateStep(t) \/ UpdateFault(t)
    \/ ApiCall(Claimer)
    \/ AttemptStep(Claimer)
    \/ AttemptFault(Claimer)

SpecUpdate == UpdateInit /\ [][UpdateNext]_vars

(* ---------------------- create_flight, statement by statement -------- *)
\* uuid.uuid4(): an id no flight has yet
CreateIds == {"f1", "f2"}

\* an empty store; create_flight is called twice, as by generate_test_data
CreateInit ==
    /\ InitCommon
    /\ holder = [t \in Threads |-> NullUser]
    /\ seat_availability = <<>>
    /\ flights = <<>>
    /\ reservations = <<>>
    /\ h = [pc |-> "idle", flight_id |-> "none", total_seats |-> 0, seat_num |-> 0,
            calls |-> 0, created |-> {}]

\* lines 139-151
CreateCall ==
    /\ h.pc = "idle"
    /\ h.calls < Cardinality(CreateIds)
    /\ \E total_seats \in 0..MaxTotalSeats, flight_id \in CreateIds \ DOMAIN flights :
          h' = [h EXCEPT !.pc = "flight", !.flight_id = flight_id,
                         !.total_seats = total_seats, !.calls = @ + 1]
    /\ UNCHANGED <<store, att, issued, holder, upd, faults, log, metrics, worker>>

\* lines 154-156: the flight row, available_seats = total_seats
InsertFlight ==
    /\ h.pc = "flight"
    /\ flights' = [f \in DOMAIN flights \cup {h.flight_id} |->
                      IF f = h.flight_id THEN h.total_seats ELSE flights[f]]
    /\ h' = [h EXCEPT !.pc = "seats", !.seat_num = 1]
    /\ UNCHANGED <<seat_availability, reservations, att, issued, holder, upd, faults, log,
                   metrics, worker>>

\* lines 159-161: one round of "for seat_num in range(1, total_seats + 1)"
InsertSeat ==
    /\ h.pc = "seats"
    /\ h.seat_num <= h.total_seats
    /\ LET key == <<h.flight_id, SeatLabel(h.seat_num)>> IN
         seat_availability' = [k \in DOMAIN seat_availability \cup {key} |->
                                  IF k = key THEN FreeSeat ELSE seat_availability[k]]
    /\ h' = [h EXCEPT !.seat_num = @ + 1]
    /\ UNCHANGED <<flights, reservations, att, issued, holder, upd, faults, log, metrics, worker>>

\* lines 163-164: return flight_id
CreateReturn ==
    /\ h.pc = "seats"
    /\ h.seat_num > h.total_seats
    /\ h' = [h EXCEPT !.pc = "idle", !.created = @ \cup {<<h.flight_id, h.total_seats>>}]
    /\ UNCHANGED <<store, att, issued, holder, upd, faults, log, metrics, worker>>

\* lines 165-167: an INSERT throws, None is returned; what was written stays
CreateFails ==
    /\ h.pc = "flight" \/ (h.pc = "seats" /\ h.seat_num <= h.total_seats)
    /\ Fault
    /\ h' = [h EXCEPT !.pc = "idle"]
    /\ UNCHANGED <<store, att, issued, holder, upd, log, metrics, worker>>

CreateNext ==
    \/ CreateCall
    \/ InsertFlight
    \/ InsertSeat
    \/ CreateReturn
    \/ CreateFails

SpecCreate == CreateInit /\ [][CreateNext]_vars

(* ------------------------ connect and initialize ---------------------- *)
\* def connect(self, max_retries=5, retry_delay=2)
DefaultRetries == 5
DefaultDelay == 2

\* the arguments connect is called with
RetryArgs == 0..DefaultRetries
DelayArgs == {1, DefaultDelay}

RECURSIVE Pow2(_)
Pow2(k) == IF k = 0 THEN 1 ELSE 2 * Pow2(k - 1)

\* retry_delay * (2 ** attempt)
Backoff(retry_delay, attempt) == retry_delay * Pow2(attempt)

\* (faulty variant: a sleep follows every failed attempt)
SleepsAfterAny(attempt, max_retries) == TRUE

\* if attempt < max_retries - 1: time.sleep(...)
SleepsAfter(attempt, max_retries) == attempt < max_retries - 1

\* __init__: no session, no metrics object
ConnectInit ==
    /\ InitStore
    /\ InitCommon
    /\ holder = [t \in Threads |-> NullUser]
    /\ h = [pc |-> "idle", via |-> "none", max_retries |-> 0, retry_delay |-> 0,
            attempt |-> 0, tries |-> 0, failed |-> 0, slept |-> <<>>, ret |-> "none",
            session |-> FALSE, keyspace |-> FALSE, schema |-> FALSE,
            stress_results |-> FALSE, init_ret |-> "none"]

\* connect(max_retries, retry_delay) called directly
ConnectCall ==
    /\ h.pc = "idle"
    /\ \E max_retries \in RetryArgs, retry_delay \in DelayArgs :
          h' = [h EXCEPT !.pc = "loop", !.via = "connect", !.max_retries = max_retries,
                         !.retry_delay = retry_delay]
    /\ UNCHANGED <<store, att, issued, holder, upd, faults, log, metrics, worker>>

\* initialize(): self.connect() with the defaults
InitializeCall ==
    /\ h.pc = "idle"
    /\ h' = [h EXCEPT !.pc = "loop", !.via = "initialize", !.max_retries = DefaultRetries,
                       !.retry_delay = DefaultDelay]
    /\ UNCHANGED <<store, att, issued, holder, upd, faults, log, metrics, worker>>

\* lines 25-31: the attempt connects, True is returned
AttemptConnects ==
    /\ h.pc = "loop"
    /\ h.attempt < h.max_retries
    /\ h' = [h EXCEPT !.pc = "returned", !.tries = @ + 1, !.session = TRUE, !.ret = "True"]
    /\ UNCHANGED <<store, att, issued, holder, upd, faults, log, metrics, worker>>

\* lines 32-38: the attempt throws
AttemptThrows ==
    /\ h.pc = "loop"
    /\ h.attempt < h.max_retries
    /\ h' = IF SleepsAfter(h.attempt, h.max_retries)
            THEN [h EXCEPT !.pc = "sleep", !.tries = @ + 1, !.failed = @ + 1]
            ELSE [h EXCEPT !.pc = "returned", !.tries = @ + 1, !.failed = @ + 1,
                           !.ret = "False"]
    /\ UNCHANGED <<store, att, issued, holder, upd, faults, log, metrics, worker>>

\* line 35, then the next round of the for loop
SleepThenRetry ==
    /\ h.pc = "sleep"
    /\ h' = [h EXCEPT !.pc = "loop", !.attempt = @ + 1,
                      !.slept = Append(@, Backoff(h.retry_delay, h.attempt))]
    /\ UNCHANGED <<store, att, issued, holder, upd, faults, log, metrics, worker>>

\* range(max_retries) is used up with no return statement reached: None
LoopFallsThrough ==
    /\ h.pc = "loop"
    /\ h.attempt >= h.max_retries
    /\ h' = [h EXCEPT !.pc = "returned", !.ret = "None"]
    /\ UNCHANGED <<store, att, issued, holder, upd, faults, log, metrics, worker>>

\* lines 113-114: if not self.connect(): return False
InitializeGivesUp ==
    /\ h.pc = "returned" /\ h.via = "initialize"
    /\ h.ret # "True"
    /\ h' = [h EXCEPT !.pc = "done", !.init_ret = "False"]
    /\ UNCHANGED <<store, att, issued, holder, upd, faults, log, metrics, worker>>

\* lines 115-118: keyspace, schema, metrics object, return True
InitializeSetsUp ==
    /\ h.pc = "returned" /\ h.via = "initialize"
    /\ h.ret = "True"
    /\ h' = [h EXCEPT !.pc = "done", !.keyspace = TRUE, !.schema = TRUE,
                      !.stress_results = TRUE, !.init_ret = "True"]
    /\ UNCHANGED <<store, att, issued, holder, upd, faults, log, metrics, worker>>

\* lines 115-116: setup_keyspace or setup_schema throws, out of initialize
InitializeSetupThrows ==
    /\ h.pc = "returned" /\ h.via = "initialize"
    /\ h.ret = "True"
    /\ Fault
    /\ \E keyspace \in BOOLEAN :
          h' = [h EXCEPT !.pc = "done", !.keyspace = keyspace, !.init_ret = "raised"]
    /\ UNCHANGED <<store, att, issued, holder, upd, log, metrics, worker>>

ConnectNext ==
    \/ ConnectCall
    \/ InitializeCall
    \/ AttemptConnects
    \/ AttemptThrows
    \/ SleepThenRetry
    \/ LoopFallsThrough
    \/ InitializeGivesUp
    \/ InitializeSetsUp
    \/ InitializeSetupThrows

SpecConnect == ConnectInit /\ [][ConnectNext]_vars

(* ------------------------------ history ------------------------------- *)
\* the calls made so far: the ones in progress or just returned, and the ones
\* whose result the workload has consumed
Attempts == log \cup {LogEntry(t) : t \in {u \in Threads : att[u].pc # "idle"}}
Done == {e \in Attempts : e.ret # "none"}
Quiet == \A t \in Threads : att[t].pc \in {"idle", "returned"}
Won(e) == e.ret = "reserved"

(* ------------------------------- claims ------------------------------- *)
\* C1: fault-free calls that all name the same available seat: while they run at
\* most one conditional write on the seat is applied, and once all (two or more)
\* have returned exactly one of them was applied and returned a reservation id and
\* every other one returned 'Seat ... already taken'.
C1_OneWinnerPerSeat ==
    \A s \in Labels :
        (faults = 0 /\ \A e \in Attempts : e.given = s) =>
            /\ Cardinality({e \in Attempts : e.applied}) <= 1
            /\ (Quiet /\ Cardinality(Done) >= 2) =>
                  /\ Cardinality({e \in Done : e.applied /\ Won(e) /\ e.id # NoId}) = 1
                  /\ \A e \in Done : ~Won(e) => (e.ret = "taken" /\ ~e.applied)

C1_Witness ==
    /\ faults = 0
    /\ Quiet
    /\ Cardinality(Done) = Cardinality(Threads)
    /\ \E s \in Labels : \A e \in Done : e.given = s
    /\ \E e \in Done : Won(e)
    /\ \E e \in Done : e.ret = "taken"

\* C2: no seat is successfully claimed twice: no two calls returned a reservation
\* id for the same (flight, seat), and no two reservation records reference the
\* same seat, storage faults included.
C2_NoSeatClaimedTwice ==
    /\ \A e1, e2 \in Done :
          (Won(e1) /\ Won(e2) /\ e1.flight_id = e2.flight_id /\ e1.seat = e2.seat) => e1 = e2
    /\ \A r1, r2 \in DOMAIN reservations :
          (/\ reservations[r1].flight_id = reservations[r2].flight_id
           /\ reservations[r1].seat_number = reservations[r2].seat_number) => r1 = r2

\* C3: with faults only after the conditional write, every reservation record has
\* its seat claimed: the Seat row is unavailable and reserved_by is the record's
\* holder.
C3_RecordHasClaimedSeat ==
    (\A e \in Attempts : e.threw \notin {"sample", "cas"}) =>
        \A r \in DOMAIN reservations :
            LET row == seat_availability[<<reservations[r].flight_id,
                                          reservations[r].seat_number>>] IN
              /\ ~row.is_available
              /\ row.reserved_by = reservations[r].user_id

\* C4: the compensating write is made only by a call whose own conditional write
\* was applied.
C4_RollbackOnlyAfterOwnClaim ==
    \A e \in Attempts : e.rolled => e.applied

\* C5: no exception escapes make_reservation_safe, whichever storage calls fail.
C5_NoExceptionEscapes ==
    \A e \in Attempts : e.ret # "raised"

\* C6: the serial workload with N >= 1 calls on a flight with at least one
\* available seat, without faults, ends with exactly 1 recorded success and N-1
\* recorded failures, the first call being the one that succeeds.
C6_SerialOneSuccess ==
    (h.pc = "done" /\ faults = 0 /\ h.avail0 # {} /\ h.num_requests >= 1) =>
        /\ h.stats.successful = 1
        /\ h.stats.failed = h.num_requests - 1
        /\ \E e \in log : e.n = 1 /\ Won(e)

\* the claims made by the two workers together, the calls they issued, and the
\* Seat rows of the target flight claimed since the workload started
TotalClaims == worker[1].client_reservations + worker[2].client_reservations
TotalIssued == issued[1] + issued[2]
NewlyClaimed == h.avail0 \ AvailableNums(h.target_flight)
Smaller(a, b) == IF a <= b THEN a ELSE b

\* C7: head-to-head on a flight with S available seats, two workers with up to S
\* calls each, no faults: the workers' successes together never exceed S, and
\* when both have finished they equal min(S, calls issued) and the number of
\* Seat rows that went from available to claimed during the run.
C7_CompeteTotal ==
    LET S == Cardinality(h.avail0) IN
      (h.pc \in {"running", "done"}) =>
          /\ TotalClaims <= S
          /\ h.pc = "done" =>
                /\ TotalClaims = Smaller(S, TotalIssued)
                /\ TotalClaims = Cardinality(NewlyClaimed)
                /\ h.stats.successful = TotalClaims

C7_Witness ==
    /\ h.pc = "done"
    /\ Cardinality(h.avail0) >= 2
    /\ TotalClaims = Cardinality(h.avail0)
    /\ \A t \in Workers : worker[t].client_reservations >= 1
    /\ \E e \in log : e.ret = "taken"

\* C8: the seats_reserved value handed to _analyze_fairness is the number of Seat
\* rows of the flight with is_available = false after the run, and the capacity
\* it is compared to is the flight's number of seats.
C8_VerdictFromSeatRows ==
    h.pc = "done" =>
        /\ h.verdict.seats_reserved
             = Cardinality(SeatNums \ AvailableNums(h.target_flight))
        /\ h.verdict.total_seats = Cardinality(SeatNums)

\* C9: the analysis passes a run exactly when both workers have at least one
\* success and 10 * min >= 3 * max; a run in which a worker has no success is
\* flagged as failing.
C9_FairnessVerdict ==
    h.pc = "done" =>
        LET a == h.calls[0]
            b == h.calls[1]
            mn == Smaller(a, b)
            mx == a + b - mn
        IN /\ (h.verdict.fairness = "passed") <=> (a >= 1 /\ b >= 1 /\ 10 * mn >= 3 * mx)
           /\ (a = 0 \/ b = 0) => h.verdict.fairness \in {"failed_none", "failed_nodata"}

C9_Witness ==
    /\ h.pc = "done"
    /\ h.calls[0] = 3
    /\ h.calls[1] = 10
    /\ h.verdict.fairness = "passed"

\* C10: K workers making M record_success / record_failure calls each: once all
\* calls have returned get_stats reports total_requests = K * M, successful = the
\* number of record_success calls and failed = the number of record_failure calls.
C10_NoLostUpdate ==
    h.pc = "done" =>
        /\ h.stats.total_requests = Cardinality(Workers) * MaxCalls
        /\ h.stats.successful = h.successes
        /\ h.stats.failed = h.failures

C10_Witness ==
    /\ h.pc = "done"
    /\ h.successes >= 1
    /\ h.failures >= 1
    /\ h.stats.total_requests = Cardinality(Workers) * MaxCalls
    /\ \A t \in Workers : rec[t].made = MaxCalls

\* C11: a get_stats snapshot taken while record calls are still being made shows
\* a state between whole record calls: successful and failed are the numbers of
\* record_success and record_failure calls that had returned, total_requests is
\* their sum and the number of latency samples held, failed is the number of
\* stored error messages, and unique_errors <= failed.
C11_NoTornSnapshot ==
    /\ h.stats.successful = h.at.successes
    /\ h.stats.failed = h.at.failures
    /\ h.stats.total_requests = h.stats.successful + h.stats.failed
    /\ h.stats.total_requests = h.at.samples
    /\ h.stats.failed = h.at.messages
    /\ h.stats.unique_errors <= h.stats.failed

C11_Witness ==
    /\ h.pc = "run"
    /\ h.stats.successful >= 1
    /\ h.stats.failed >= 1
    /\ h.stats.unique_errors >= 1
    /\ \E t \in Workers : rec[t].pc # "idle"
    /\ \E t \in Workers : rec[t].made < MaxCalls

\* an update whose SELECT found no record has returned False without running its
\* UPDATE, and an id that no claim creates has no record
NotFoundReturnsFalse ==
    \A t \in Threads :
        upd[t].found = "no" =>
            /\ upd[t].pc = "returned"
            /\ upd[t].ret = "false"
            /\ ~upd[t].wrote
            /\ (\A u \in Threads : att[u].reservation_id # upd[t].reservation_id) =>
                  upd[t].reservation_id \notin DOMAIN reservations

\* the step in which an update finds no record changes nothing in storage
NotFoundWritesNothing ==
    \A t \in Threads :
        (upd[t].found # "no" /\ upd'[t].found = "no") => UNCHANGED store

\* C12: an update_reservation on an id for which the SELECT finds no record
\* returns False and performs no write: reservation records, Seat rows and
\* counters are unchanged and no record is created for that id, also with a
\* claim and another update running.
C12_UpdateNotFound == []NotFoundReturnsFalse /\ [][NotFoundWritesNothing]_vars

C12_Witness ==
    \E t, u \in Workers :
        /\ upd[t].found = "no"
        /\ upd[t].new_seat # NoSeat
        /\ upd[t].new_status # NoStatus
        /\ upd[t].reservation_id \notin DOMAIN reservations
        /\ upd[u].wrote
        /\ att[Claimer].ret = "reserved"

\* C13 as stated: an update that ran with only new_seat left the record's status
\* as it was, and one with only new_status left its seat label as it was, in
\* every interleaving.
C13_PartialUpdatePreserves ==
    \A t \in Threads :
        upd[t].wrote =>
            /\ upd[t].new_status = NoStatus => upd[t].after.status = upd[t].before.status
            /\ upd[t].new_seat = NoSeat =>
                  upd[t].after.seat_number = upd[t].before.seat_number

\* C13, amended: an update writes back the value it read for the field it was
\* not given, so it leaves that field as it was whenever no other update of the
\* same record ran between its SELECT and its UPDATE.
C13_PreservesWhatItRead ==
    \A t \in Threads :
        (upd[t].wrote /\ ~upd[t].crossed) =>
            /\ upd[t].new_status = NoStatus => upd[t].after.status = upd[t].before.status
            /\ upd[t].new_seat = NoSeat =>
                  upd[t].after.seat_number = upd[t].before.seat_number

C13_Witness ==
    \E t, u \in Workers :
        /\ t # u
        /\ upd[t].reservation_id = upd[u].reservation_id
        /\ upd[u].wrote /\ upd[u].after.status = "cancelled"
        /\ upd[t].wrote /\ ~upd[t].crossed
        /\ upd[t].new_status = NoStatus
        /\ upd[t].before.status = "cancelled"
        /\ upd[t].after.status = "cancelled"
        /\ upd[t].after.seat_number # upd[t].before.seat_number

\* every Seat row is either free with no holder and no timestamp or claimed with
\* both
SeatRowConsistent ==
    \A k \in SeatKeys :
        LET row == seat_availability[k] IN
          /\ row.is_available <=> row.reserved_by = NullUser
          /\ row.is_available <=> row.reservation_time = NoId

\* a write that changes a Seat row changes its flag, its holder and its timestamp
RowsChangeTogether ==
    \A k \in SeatKeys :
        seat_availability'[k] # seat_availability[k] =>
            /\ seat_availability'[k].is_available # seat_availability[k].is_available
            /\ seat_availability'[k].reserved_by # seat_availability[k].reserved_by
            /\ seat_availability'[k].reservation_time # seat_availability[k].reservation_time

\* C14: in every reachable state every Seat row has is_available = true iff
\* reserved_by is null iff reservation_time is null, and the three change
\* together in one write (the conditional claim or the rollback).
C14_SeatRowInvariant == []SeatRowConsistent /\ [][RowsChangeTogether]_vars

C14_Witness ==
    /\ \E k \in SeatKeys : ~seat_availability[k].is_available
    /\ \E e \in Attempts :
          /\ e.applied /\ e.rolled
          /\ seat_availability[<<e.flight_id, e.seat>>].is_available
    /\ \E e \in Attempts : Won(e)

\* two successful calls on flight f that read the same counter value: neither
\* wrote the counter before the other read it
ReadTogether(f) ==
    \E e1, e2 \in Done :
        /\ e1 # e2
        /\ Won(e1) /\ Won(e2)
        /\ e1.flight_id = f /\ e2.flight_id = f
        /\ e1.current_seats = e2.current_seats

\* C15: the counter is not protected against lost updates: without faults, once
\* all calls have returned and two successful claims on a flight had their
\* counter read and write steps interleaved, available_seats differs from the
\* number of Seat rows of the flight with is_available = true.
C15_CounterLosesUpdate ==
    \A f \in Flights :
        (faults = 0 /\ Quiet /\ ReadTogether(f)) =>
            flights[f] # Cardinality(AvailableNums(f))

C15_Witness ==
    \E f \in Flights :
        /\ faults = 0
        /\ Quiet
        /\ ReadTogether(f)
        /\ Cardinality({e \in Done : Won(e)}) = 2
        /\ AvailableNums(f) = {}
        /\ flights[f] = 1

\* what the caller gets back from a call that returned: the id (or None) and the
\* message, whose text carries the exception of the statement that threw
Outcome(e) ==
    [id |-> IF e.ret = "reserved" THEN e.id ELSE NoId,
     tag |-> e.ret,
     seat |-> IF e.ret = "taken" THEN e.seat ELSE NoSeat,
     what |-> e.threw]

\* the call claimed the seat and its rollback write ran
Reverted(e) == e.applied /\ e.rolled

\* the call claimed the seat, entered the handler, and its rollback write threw:
\* the seat stays claimed with no caller holding a reservation id for it
Orphaned(e) == e.applied /\ e.ret = "failed" /\ ~e.rolled

\* C16: a call whose rollback write did not apply returns an outcome different
\* from the outcome of a call whose rollback write reverted the seat.
C16_CompensationFailureDistinct ==
    \A e1, e2 \in Done : (Reverted(e1) /\ Orphaned(e2)) => Outcome(e1) # Outcome(e2)

\* the call's reservation record is in the table
Inserted(e) == e.id \in DOMAIN reservations

\* the call has reached its counter statements
AtCounter(e) == e.pc \in {"read", "write"} \/ e.threw \in {"read", "write"} \/ Won(e)

\* the call entered the rollback branch of the handler
CompensationAttempted(e) == e.threw # "none" /\ e.seat # NoSeat

\* C17: every call follows the per-attempt state machine: the record is inserted
\* only after the call's own conditional write was applied, the counter is read
\* and written only after the insert returned, an id is returned only after
\* both, a returned call has exactly one outcome, and the rollback is attempted
\* only after the conditional write was applied and the insert then failed.
C17_AttemptStateMachine ==
    \A e \in Attempts :
        /\ Inserted(e) => e.applied
        /\ AtCounter(e) => Inserted(e)
        /\ Won(e) => (e.applied /\ Inserted(e))
        /\ (e.pc = "returned") <=> (e.ret # "none")
        /\ CompensationAttempted(e) => (e.applied /\ e.threw = "insert")

\* a call sends at most one conditional write; one that was given a seat never
\* samples and works on that seat; one that lost has sent exactly one write,
\* which was not applied, and has returned
OneConditionalWrite ==
    \A e \in Attempts :
        /\ e.cas <= 1
        /\ e.given # NoSeat => (~e.sampled /\ e.seat = e.given)
        /\ e.ret = "taken" => (e.cas = 1 /\ ~e.applied /\ e.pc = "returned")

\* a step of a call changes no Seat row other than the one of the call's seat,
\* and a call that has sent its conditional write keeps its seat
OnlyOwnSeatWritten ==
    \A k \in SeatKeys :
        seat_availability'[k] # seat_availability[k] =>
            \E t \in Threads :
                /\ att'[t] # att[t]
                /\ k = <<att[t].flight_id, att[t].preferred_seat>>
                /\ att[t].given # NoSeat => k[2] = att[t].given

\* the step after a conditional write that was not applied is the return of
\* 'already taken': the seat is not changed and no further write is sent
NoRetry ==
    \A t \in Threads :
        (att[t].pc = "cas" /\ att'[t].cas # att[t].cas /\ ~att'[t].applied
            /\ att'[t].threw = "none") =>
            /\ att'[t].pc = "returned"
            /\ att'[t].ret = "taken"
            /\ att'[t].preferred_seat = att[t].preferred_seat

\* C18: a call sends at most one conditional write, on one seat: with
\* preferred_seat given it does not sample and writes only that seat; when the
\* write is not applied it returns 'already taken' at once, with no retry and no
\* other seat.
C18_OneConditionalWrite ==
    []OneConditionalWrite /\ [][OnlyOwnSeatWritten /\ NoRetry]_vars

C18_Witness ==
    /\ \E e \in Done : e.ret = "taken" /\ e.given # NoSeat /\ e.cas = 1
    /\ \E e \in Done : e.ret = "taken" /\ e.given = NoSeat /\ e.sampled /\ e.cas = 1
    /\ \E e \in Done : Won(e)

\* a call that returned 'already taken' claimed nothing, rolled nothing back,
\* inserted no record and never reached its counter statements
LoserDidNothing ==
    \A e \in Attempts :
        e.ret = "taken" =>
            /\ ~e.applied
            /\ ~e.rolled
            /\ ~Inserted(e)
            /\ ~AtCounter(e)
            /\ e.threw = "none"

\* the step in which a call loses leaves Seat rows, counters and records as they are
LosingStepWritesNothing ==
    \A t \in Threads :
        (att[t].ret # "taken" /\ att'[t].ret = "taken") => UNCHANGED store

\* C19: a call that loses the race (returns 'Seat ... already taken') changes
\* nothing in storage: the Seat row keeps the winner's holder and timestamp, no
\* reservation record is created, and the call neither reads nor writes the
\* flight's counter.
C19_LoserChangesNothing == []LoserDidNothing /\ [][LosingStepWritesNothing]_vars

C19_Witness ==
    \E e, w \in Done :
        /\ e.ret = "taken"
        /\ Won(w)
        /\ w.seat = e.seat
        /\ w.user_id # e.user_id
        /\ seat_availability[<<e.flight_id, e.seat>>] = ClaimedSeat(w.user_id, w.id)

\* a call that returned 'No seats available' was given no seat, read its sample,
\* chose no seat and sent no write of any kind
NoSeatsDidNothing ==
    \A e \in Attempts :
        e.ret = "noseats" =>
            /\ e.given = NoSeat /\ e.sampled /\ e.seat = NoSeat
            /\ e.cas = 0 /\ ~e.applied /\ ~e.rolled
            /\ ~Inserted(e) /\ ~AtCounter(e)

\* the step that reads the sample without throwing: it returns 'No seats
\* available' exactly when no Seat row of the flight is available, otherwise it
\* goes on to the conditional write with a seat whose row is available; it
\* writes nothing
SampleDecides ==
    \A t \in Threads :
        (att[t].pc = "sample" /\ att'[t] # att[t] /\ att'[t].threw = "none") =>
            LET avail == {SeatLabel(n) : n \in AvailableNums(att[t].flight_id)} IN
              /\ (att'[t].ret = "noseats") <=> (avail = {})
              /\ avail # {} => (att'[t].pc = "cas" /\ att'[t].preferred_seat \in avail)
              /\ UNCHANGED store

\* C20: a call with no preferred_seat returns 'No seats available' exactly when
\* its sample of the flight's available seats is empty, and then sends no
\* conditional write, no insert, no counter write and no rollback; with a
\* non-empty sample the seat it tries is one whose row was available in the
\* sample.
C20_NoSeatsIffEmptySample == []NoSeatsDidNothing /\ [][SampleDecides]_vars

C20_Witness ==
    /\ \E e \in Done : e.ret = "noseats" /\ e.sampled
    /\ \E e \in Done : e.given = NoSeat /\ e.sampled /\ Won(e)
    /\ \A f \in Flights : AvailableNums(f) = {}

\* C21: a call with no preferred_seat returns 'already taken' only if another
\* call's conditional write on the seat it chose was applied after it read its
\* sample and before it sent its own conditional write; calls that do not overlap
\* are never overtaken, so they never return 'already taken'.
C21_TakenOnlyIfOvertaken ==
    \A e \in Attempts :
        (e.ret = "taken" /\ e.given = NoSeat) => (e.sampled /\ e.overtaken)

C21_Witness ==
    \E e, w \in Done :
        /\ e.ret = "taken" /\ e.given = NoSeat /\ e.overtaken
        /\ w.applied /\ w.seat = e.seat /\ w # e
        /\ faults = 0

\* a call whose insert threw after its conditional write was applied and whose
\* rollback write ran has returned 'Reservation failed', has no record and never
\* reached its counter statements
RevertedLeftNothing ==
    \A e \in Attempts :
        (e.applied /\ e.threw = "insert" /\ e.rolled) =>
            /\ e.pc = "returned" /\ e.ret = "failed"
            /\ Outcome(e).id = NoId
            /\ ~Inserted(e)
            /\ ~AtCounter(e)

\* the rollback step of such a call leaves the seat available with holder and
\* timestamp null and changes neither records nor counters
RevertStep ==
    \A t \in Threads :
        (att[t].applied /\ att[t].threw = "insert" /\ ~att[t].rolled /\ att'[t].rolled) =>
            /\ seat_availability'[<<att[t].flight_id, att[t].preferred_seat>>] = FreeSeat
            /\ UNCHANGED <<flights, reservations>>

\* C22: when the insert fails after the call's conditional write was applied and
\* the rollback write succeeds, the call returns (None, 'Reservation failed: ...')
\* and leaves the seat available with holder and timestamp null, no reservation
\* record of its own, and the flight counter untouched.
C22_RevertedOutcome == []RevertedLeftNothing /\ [][RevertStep]_vars

C22_Witness ==
    \E e \in Done :
        /\ e.applied /\ e.threw = "insert" /\ e.rolled
        /\ seat_availability[<<e.flight_id, e.seat>>] = FreeSeat
        /\ flights[e.flight_id] = NumSeats
        /\ reservations = <<>>

\* C23: when the insert fails after the call's conditional write was applied and
\* the rollback write fails too, the call returns a failure without retrying,
\* and from then on the seat stays claimed by the call's holder with no
\* reservation record, so that no later call obtains it.
C23_OrphanedClaimStays ==
    \A e \in Done :
        (Orphaned(e) /\ e.threw = "insert") =>
            /\ Outcome(e).id = NoId
            /\ ~e.rolled
            /\ ~Inserted(e)
            /\ seat_availability[<<e.flight_id, e.seat>>] = ClaimedSeat(e.user_id, e.id)
            /\ \A w \in Attempts : (w # e /\ w.seat = e.seat) => ~Won(w)

\* the step in which a call returns a reservation id: in the state it returns
\* into, the record with that id holds the call's flight, holder and seat with
\* status 'confirmed', and the Seat row is claimed by the call's holder
ReturnOfId ==
    \A t \in Threads :
        (att[t].ret # "reserved" /\ att'[t].ret = "reserved") =>
            LET a == att'[t]
                r == a.reservation_id IN
              /\ a.applied
              /\ r \in DOMAIN reservations'
              /\ reservations'[r].flight_id = a.flight_id
              /\ reservations'[r].user_id = a.user_id
              /\ reservations'[r].seat_number = a.preferred_seat
              /\ reservations'[r].status = "confirmed"
              /\ ~seat_availability'[<<a.flight_id, a.preferred_seat>>].is_available
              /\ seat_availability'[<<a.flight_id, a.preferred_seat>>].reserved_by = a.user_id

\* C24: whenever make_reservation_safe returns a reservation id r, a record r
\* exists holding the call's flight, holder, the seat on which its conditional
\* write was applied and status 'confirmed', and at the moment of return that
\* Seat row is claimed with reserved_by = the holder.
C24_SuccessPostcondition == [][ReturnOfId]_vars

\* status_options of the reservation menu
StatusOptions == {"confirmed", "cancelled", "waiting"}

\* C25: in every reachable state, after any claims and update_reservation calls
\* with any arguments, every reservation record's status is one of confirmed,
\* cancelled, waiting.
C25_StatusInDomain ==
    \A r \in DOMAIN reservations : reservations[r].status \in StatusOptions

\* every record is one of the start state or has the id of a call whose
\* conditional write was applied
CreatedByClaim ==
    \A r \in DOMAIN reservations :
        \/ r \in DOMAIN UsedReservations(SeatNums)
        \/ \E t \in Threads : att[t].reservation_id = r /\ att[t].applied

\* no step removes a record or changes the flight, holder or creation time of one
RecordsOnlyGrow ==
    \A r \in DOMAIN reservations :
        /\ r \in DOMAIN reservations'
        /\ reservations'[r].flight_id = reservations[r].flight_id
        /\ reservations'[r].user_id = reservations[r].user_id
        /\ reservations'[r].reservation_time = reservations[r].reservation_time

\* C26: reservation records are created only by a call whose conditional write
\* was applied and are never deleted: through claims, rollbacks and updates the
\* set of reservation ids only grows and the flight, holder and creation time of
\* a record never change.
C26_RecordsCreatedOnceKept == []CreatedByClaim /\ [][RecordsOnlyGrow]_vars

C26_Witness ==
    /\ \E t \in Workers : upd[t].wrote /\ upd[t].reservation_id = <<Claimer, 1>>
    /\ \E t \in Workers : upd[t].wrote /\ upd[t].reservation_id = <<0, 1>>
    /\ att[Claimer].rolled
    /\ <<Claimer, 1>> \in DOMAIN reservations

\* the updates that found the record with this id
UpdatesOf(id) == {t \in Workers : upd[t].reservation_id = id /\ upd[t].found = "yes"}

\* the (seat label, status) pair a call hands to its UPDATE: its arguments, and
\* for a missing one the value its SELECT read
PairWritten(t) ==
    <<IF upd[t].new_seat # NoSeat THEN upd[t].new_seat ELSE upd[t].current.seat_number,
      IF upd[t].new_status # NoStatus THEN upd[t].new_status ELSE upd[t].current.status>>

\* C27: update_reservation calls on the same existing reservation, without
\* faults: once all have returned each returned True, and the record's (seat
\* label, status) pair is the pair written by the call whose UPDATE came last.
C27_LastWriterWins ==
    \A id \in UpdateIds :
        (faults = 0 /\ UpdatesOf(id) # {} /\ \A t \in UpdatesOf(id) : upd[t].pc = "returned") =>
            /\ \A t \in UpdatesOf(id) : upd[t].ret = "true" /\ upd[t].wrote
            /\ \E t \in UpdatesOf(id) :
                  /\ upd[t].last
                  /\ \A u \in UpdatesOf(id) \ {t} : ~upd[u].last
                  /\ <<reservations[id].seat_number, reservations[id].status>> = PairWritten(t)

C27_Witness ==
    \E id \in UpdateIds : \E t, u \in UpdatesOf(id) :
        /\ faults = 0
        /\ upd[t].pc = "returned" /\ upd[u].pc = "returned"
        /\ upd[t].last /\ upd[t].crossed
        /\ PairWritten(t) # PairWritten(u)
        /\ PairWritten(t)[1] # PairWritten(u)[1]
        /\ PairWritten(t)[2] # PairWritten(u)[2]
        /\ <<reservations[id].seat_number, reservations[id].status>> = PairWritten(t)


\* C28: a head-to-head worker issues at most S calls, S being the available-seat
\* figure read before the run; the call that returns 'No seats available' is its
\* last one; after a call that returns 'already taken' or 'Reservation failed',
\* or that raises, the loop goes on.
AtMostCapacityCalls == \A t \in Workers : issued[t] <= h.total_seats

StopsOnlyOnNoSeats ==
    \A t \in Workers :
        /\ worker[t].pc = "loop" /\ att[t].pc = "returned" /\ att'[t].pc = "idle"
              => (worker'[t].pc = "finished" <=> att[t].ret = "noseats")
        /\ worker[t].pc = "loop" /\ worker'[t].pc = "finished"
              => \/ att[t].pc = "returned" /\ att[t].ret = "noseats"
                 \/ att[t].pc = "idle" /\ issued[t] = h.total_seats
        /\ worker[t].pc = "finished" => issued'[t] = issued[t] /\ worker'[t].pc = "finished"

C28_WorkerLoop == []AtMostCapacityCalls /\ [][StopsOnlyOnNoSeats]_vars

\* worker 2 reserved with each of its calls, so both failures are worker 1's: its
\* first call failed on a storage fault, it went on, and its second call found no seat
C28_Witness ==
    /\ h.total_seats = 2
    /\ worker[2].client_reservations = 2
    /\ worker[1].pc = "finished" /\ issued[1] = 2 /\ att[1].pc = "idle"
    /\ Len(results.errors) = 2
    /\ results.errors[1].tag = "failed"
    /\ results.errors[2].tag = "noseats"

\* C29: whatever num_clients is, the head-to-head workload runs exactly the two
\* workers, for two different users of user_ids, on the one target flight; with
\* fewer than two users, or when the flight status cannot be read, no call is
\* made, nothing is recorded and the empty result is returned.
Started == {t \in Threads : worker[t].pc # "off"}

TwoDistinctWorkers ==
    h.pc \in {"running", "done", "raised"} =>
        /\ Started = Workers /\ Cardinality(Started) = 2
        /\ \A a, b \in Workers : a # b => holder[a] # holder[b]
        /\ \A t \in Workers : holder[t] \in h.user_ids
        /\ \A t \in Threads : issued[t] > 0 => t \in Workers
        /\ \A t \in Threads : att[t].pc # "idle" =>
                att[t].flight_id = h.target_flight /\ att[t].user_id = holder[t]

AbortedDidNothing ==
    /\ h.pc = "aborted" =>
        /\ \A t \in Threads : issued[t] = 0 /\ att[t] = IdleAttempt /\ worker[t] = IdleWorker
        /\ results = NewResults /\ h.stats = NoStats
        /\ seat_availability = UsedSeats(SeatNums \ h.avail0)
        /\ reservations = UsedReservations(SeatNums \ h.avail0)
    /\ Cardinality(h.user_ids) < 2 => h.pc \in {"start", "aborted"}

C29_TwoWorkersOrNothing == TwoDistinctWorkers /\ AbortedDidNothing

C29_Witness ==
    /\ h.pc = "done" /\ h.num_clients = 3
    /\ \A t \in Workers : issued[t] > 0

\* C30: the harness records exactly one outcome for every call, whatever the call
\* returns or raises: at any moment successes plus failures equal the calls that
\* have ended, the serial workload ends with total_requests = num_requests and
\* the independent clients end with total_requests = num_clients *
\* requests_per_client.
\* the calls of thread t that have ended and been handed to the harness
Ended(t) == IF att[t].pc = "idle" THEN issued[t] ELSE issued[t] - 1

EndedCalls == SumSeq([t \in Threads |-> Ended(t)])

Planned == IF IsSerial THEN h.num_requests ELSE h.num_clients * h.requests_per_client

OneOutcomePerCall ==
    /\ results.successful_reservations + results.failed_reservations = EndedCalls
    /\ Len(results.errors) = results.failed_reservations
    /\ Len(results.response_times) = EndedCalls

C30_OneOutcomePerAttempt ==
    /\ OneOutcomePerCall
    /\ h.pc = "done" => h.stats.total_requests = Planned

\* two clients of two calls each; one call reserved, one was refused, one failed
\* on a storage fault
C30_Witness ==
    /\ ~IsSerial /\ h.pc = "done"
    /\ h.num_clients = 2 /\ h.requests_per_client = 2
    /\ h.stats.total_requests = 4
    /\ h.stats.successful >= 1
    /\ \E i, j \in DOMAIN results.errors :
          results.errors[i].tag = "failed" /\ results.errors[j].tag \in {"taken", "noseats"}

\* C31: when every storage call returns, each of the three workloads ends under
\* fair scheduling: every worker leaves its loop, the metrics lock is given back
\* after every record_success / record_failure / get_stats call, and no
\* reachable state is one in which a thread waits for ever.
Terminated == h.pc \in {"done", "aborted", "raised"}

WorkersFinished == \A t \in Workers : worker[t].pc \in {"off", "finished"} /\ att[t].pc = "idle"

NoThreadStuck == ~Terminated => ENABLED LiveNext

LockFreeAtEnd == Terminated => lock = {} /\ WorkersFinished

Tally == results.reservations_by_client

\* the record_success call with id c that has written the tally and not yet returned
Tallying(c) ==
    IF \E t \in Workers : rec[t].pc = "release" /\ rec[t].kind = "success" /\ rec[t].client_id = c
    THEN 1 ELSE 0

SuccessesWith(c) == h.by[c] + Tallying(c)

RECURSIVE SumOver(_, _)
SumOver(f, S) ==
    IF S = {} THEN 0 ELSE LET c == CHOOSE x \in S : TRUE IN f[c] + SumOver(f, S \ {c})

TallyCountsSuccesses ==
    /\ DOMAIN Tally \subseteq DOMAIN h.by
    /\ \A c \in DOMAIN Tally : Tally[c] >= 1 /\ Tally[c] = SuccessesWith(c)
    /\ \A c \in DOMAIN h.by : SuccessesWith(c) = 0 => c \notin DOMAIN Tally
    /\ lock = {} =>
          SumOver(Tally, DOMAIN Tally) =
              results.successful_reservations - (h.successes - SumOver(h.by, DOMAIN h.by))

FailureKeepsTally ==
    Tally' # Tally => \E t \in Workers : rec[t].pc = "tally_write" /\ rec[t].kind = "success"

C32_TallyCountsSuccesses == []TallyCountsSuccesses /\ [][FailureKeepsTally]_vars

\* worker 0 has two successes with its id, worker 1 one success without an id
\* and one failure with its id
C32_Witness ==
    /\ h.pc = "done"
    /\ Tally = (0 :> 2)
    /\ h.successes = 3 /\ h.failures = 1
    /\ rec[2].kind = "failure" /\ rec[2].client_id = 1

\* C33: calls made one after the other, none of them failing on the storage,
\* on a freshly created flight: between the calls available_seats is the number
\* of seat rows with is_available = true, and it is the created figure less the
\* calls that reserved so far (a reserving call lowers it by one, a refused call
\* leaves it alone).
ReservedCalls == {t \in Threads : att[t].pc = "returned" /\ att[t].ret = "reserved"}

C33_CounterExactWhenSerial ==
    Quiet => \A f \in Flights :
        /\ flights[f] = Cardinality(AvailableNums(f))
        /\ flights[f] = NumSeats - Cardinality(ReservedCalls)

\* one call reserved A1, the next named A1 and was refused, the third reserved
C33_Witness ==
    /\ Quiet
    /\ att[1].ret = "reserved" /\ att[1].preferred_seat = SeatLabel(1)
    /\ att[2].ret = "taken" /\ att[2].given = SeatLabel(1)
    /\ att[3].ret = "reserved"
    /\ flights["f1"] = NumSeats - 2

\* C34: while no statement has thrown, whatever calls overlap on a flight created
\* with S seats, 0 <= available_seats <= S and available_seats is at least the
\* number of seat rows with is_available = true: a lost update leaves the counter
\* too high, never too low.
C34_CounterNeverTooLow ==
    faults = 0 => \A f \in Flights :
        /\ 0 <= flights[f] /\ flights[f] <= NumSeats
        /\ flights[f] >= Cardinality(AvailableNums(f))

\* every seat is taken and the counter still shows one: two calls read the counter
\* before either wrote it
C34_Witness ==
    /\ faults = 0 /\ Quiet
    /\ AvailableNums("f1") = {}
    /\ flights["f1"] = 1
    /\ Cardinality(ReservedCalls) = NumSeats

\* C35: the counter never goes up: every write to available_seats stores a value
\* that is at most the value the counter held just before the write.
CounterStepsDown == \A f \in Flights : flights'[f] <= flights[f]

C35_CounterNeverIncreases == [][CounterStepsDown]_vars

\* C35 as it holds: every write to available_seats is made by a call that holds a
\* seat claim and stores one less than the value that call read; it lowers the
\* counter by one when no other call wrote the counter since that read, and it
\* can raise the counter when others did.
WritesWhatItRead ==
    \A f \in Flights :
        flights'[f] # flights[f] =>
            \E t \in Threads :
                /\ att[t].pc = "write" /\ att[t].flight_id = f /\ att[t].applied
                /\ att'[t].pc = "returned"
                /\ flights'[f] = att[t].current_seats - 1
                /\ att[t].current_seats = flights[f] => flights'[f] = flights[f] - 1

C35_WritesReadValueLessOne == [][WritesWhatItRead]_vars

\* the third caller's second call wrote one less than it had read; a call that
\* had read one more, before, then wrote its stale value over it: the counter
\* shows what the third caller read
C35_Witness ==
    /\ att[3].pc = "returned" /\ att[3].ret = "reserved" /\ issued[3] = 2
    /\ \E t \in Threads \ {3} :
          /\ att[t].pc = "returned" /\ att[t].ret = "reserved"
          /\ att[t].current_seats = att[3].current_seats + 1
    /\ flights["f1"] = att[3].current_seats

\* C36: a step of update_reservation changes at most the seat label and the
\* status of the one record it names: no seat row (the old seat is not released,
\* the new one is neither claimed nor looked at), no flight counter, no other
\* record, and no other column of that record.
OtherColumns(row) == [flight_id |-> row.flight_id, user_id |-> row.user_id,
                      reservation_time |-> row.reservation_time]

UpdateFrame ==
    upd' # upd =>
        /\ seat_availability' = seat_availability
        /\ flights' = flights
        /\ DOMAIN reservations' = DOMAIN reservations
        /\ \A id \in DOMAIN reservations :
              reservations'[id] # reservations[id] =>
                  /\ \E t \in Workers : upd[t].pc = "write" /\ upd[t].reservation_id = id
                                          /\ upd'[t].pc = "returned"
                  /\ OtherColumns(reservations'[id]) = OtherColumns(reservations[id])

C36_UpdateFrame == [][UpdateFrame]_vars

\* an update moved the record of seat 1 to another label: seat 1 is still
\* claimed and the row of the new label is still free
C36_Witness ==
    \E t \in Workers :
        /\ upd[t].pc = "returned" /\ upd[t].wrote
        /\ upd[t].reservation_id = <<0, 1>>
        /\ upd[t].before.seat_number = SeatLabel(1)
        /\ reservations[<<0, 1>>].seat_number = SeatLabel(NumSeats)
        /\ ~seat_availability[<<"f1", SeatLabel(1)>>].is_available
        /\ seat_availability[<<"f1", SeatLabel(NumSeats)>>].is_available
        /\ flights["f1"] = NumSeats - 1

\* C37: once create_flight(total_seats = S) has returned a flight id, the flight
\* has exactly S seat rows, one for each seat number 1..S under pairwise distinct
\* labels, each of them available with holder and time null, and
\* available_seats = S.
SeatRowsOf(f) == {k \in DOMAIN seat_availability : k[1] = f}

CreatedAsAsked(f, S) ==
    /\ f \in DOMAIN flights /\ flights[f] = S
    /\ Cardinality(SeatRowsOf(f)) = S
    /\ \A m, n \in 1..S : SeatLabel(m) = SeatLabel(n) => m = n
    /\ SeatRowsOf(f) = {<<f, SeatLabel(n)>> : n \in 1..S}
    /\ \A k \in SeatRowsOf(f) :
          /\ seat_availability[k].is_available
          /\ seat_availability[k].reserved_by = NullUser
          /\ seat_availability[k].reservation_time = NoId

C37_CreatedFlight == \A c \in h.created : CreatedAsAsked(c[1], c[2])

\* a flight of more than one row of seats was created, after a creation that failed
C37_Witness ==
    /\ h.pc = "idle" /\ h.calls = 2 /\ faults = 1
    /\ \E c \in h.created : c[2] = MaxTotalSeats
    /\ Cardinality(DOMAIN flights) = 2

\* C38: connect makes at most max_retries attempts, one after the other; the
\* first attempt that connects ends it with True; after the failed attempt
\* number k+1 it sleeps retry_delay * 2^k, except after the last one; it returns
\* False only after exactly max_retries failed attempts; and when connect has
\* not connected, initialize returns False with no keyspace, no schema and no
\* metrics object set up.
RetriesBounded ==
    /\ h.tries <= h.max_retries
    /\ h.failed <= h.tries
    /\ h.ret = "True" => h.tries = h.failed + 1 /\ h.session
    /\ h.ret = "False" => h.failed = h.max_retries /\ h.tries = h.max_retries /\ ~h.session

SleepsDouble ==
    /\ Len(h.slept) <= h.failed
    /\ h.pc \in {"loop", "returned", "done"} =>
          Len(h.slept) = (IF h.failed = h.max_retries /\ h.failed > 0
                          THEN h.failed - 1 ELSE h.failed)
    /\ \A k \in DOMAIN h.slept :
          h.slept[k] = (IF k = 1 THEN h.retry_delay ELSE 2 * h.slept[k - 1])

NoAttemptAfterReturn == h.ret # "none" => h'.tries = h.tries /\ h'.slept = h.slept /\ h'.ret = h.ret

InitializeStopsUnconnected ==
    (h.via = "initialize" /\ h.pc = "done" /\ h.ret # "True") =>
        /\ h.init_ret = "False"
        /\ ~h.keyspace /\ ~h.schema /\ ~h.stress_results

C38_ConnectRetries ==
    /\ [](RetriesBounded /\ SleepsDouble /\ InitializeStopsUnconnected)
    /\ [][NoAttemptAfterReturn]_vars

\* initialize gave up after five failed attempts and the sleeps 2, 4, 8, 16
C38_Witness ==
    /\ h.via = "initialize" /\ h.pc = "done"
    /\ h.ret = "False" /\ h.init_ret = "False"
    /\ h.failed = DefaultRetries
    /\ h.slept = <<2, 4, 8, 16>>
====
